---------------------------- MODULE Spec2Model ----------------------------
(***************************************************************************)
(* red4lib: the archive packer (write_archive / make_entry / write_index), *)
(* the LXRS footer codec and the archive reader (from_reader_consume /     *)
(* extract_segments), modelled at byte level.                              *)
(*                                                                         *)
(* A byte is a number in 0..255, a buffer or stream is a sequence of       *)
(* bytes, a u32 is a number, a u64 hash is its 8 little-endian bytes.      *)
(* Paths and extensions are sequences of ASCII codes.                      *)
(***************************************************************************)
EXTENDS Integers, Sequences, FiniteSets, TLC

(***************************************************************************)
(* Bounds of the model.                                                    *)
(***************************************************************************)
\* the largest number of files the packed directory holds
MaxFiles == 2

\* the number of extraction calls made on one opened archive
MaxExtracts == 2

\* how far on each side of a threshold the lengths and sizes tried reach
MaxSlack == 2

\* the largest number of paths a directory walk yields
MaxWalk == 2

(***************************************************************************)
(* Program constants.                                                      *)
(***************************************************************************)
HEADER_MAGIC == 1380009042
HEADER_VERSION == 12
HEADER_SIZE == 40
HEADER_PADDING == 132
HEADER_EXTENDED_SIZE == 172
KRAKEN_MAGIC == 1263681867
LXRS_MAGIC == 1280856659
LXRS_VERSION == 1
CR2W_MAGIC == 1462915651
PAGE == 4096
PAD_BYTE == 217
KRAKEN_MIN_LEN == 256
INDEX_TABLE_OFFSET == 8

(***************************************************************************)
(* Option and Result values.                                               *)
(***************************************************************************)
None == [some |-> FALSE]
Some(v) == [some |-> TRUE, v |-> v]

Ok(v) == [st |-> "ok", v |-> v]
Err(kind) == [st |-> "err", kind |-> kind]
Panic(why) == [st |-> "panic", why |-> why]
IsOk(r) == r.st = "ok"

(***************************************************************************)
(* Little-endian integers (byteorder::LittleEndian).                       *)
(***************************************************************************)
Zeros(n) == [i \in 1..n |-> 0]
Fill(n, b) == [i \in 1..n |-> b]

U8(n) == <<n % 256>>
U32LE(n) ==
    <<n % 256, (n \div 256) % 256, (n \div 65536) % 256, (n \div 16777216) % 256>>
\* a u64 that fits 31 bits (stream offsets, sizes)
U64LE(n) == U32LE(n) \o <<0, 0, 0, 0>>

\* whether n bytes can be read at 0-based position pos
CanRead(buf, pos, n) == pos >= 0 /\ n >= 0 /\ pos + n <= Len(buf)
Bytes(buf, pos, n) == SubSeq(buf, pos + 1, pos + n)
\* the number read by read_u32 / read_u64; every such field the model reads
\* as a number is below 2^31 (TLC stops on overflow otherwise)
U32At(buf, pos) ==
    buf[pos + 1] + 256 * buf[pos + 2] + 65536 * buf[pos + 3] + 16777216 * buf[pos + 4]
U64At(buf, pos) == U32At(buf, pos)
\* read_i32: two's complement
I32At(buf, pos) ==
    buf[pos + 1] + 256 * buf[pos + 2] + 65536 * buf[pos + 3]
        + 16777216 * (IF buf[pos + 4] >= 128 THEN buf[pos + 4] - 256 ELSE buf[pos + 4])

(***************************************************************************)
(* FNV-1a/64 on 8 little-endian limbs (lib.rs fnv1a64_hash_string).        *)
(***************************************************************************)
\* 0xcbf29ce484222325
FNV_OFFSET_BASIS == <<37, 35, 34, 132, 228, 156, 242, 203>>
\* the prime 0x100000001b3 is 2^40 + 0x1b3
FNV_PRIME_LOW == 435
FNV_PRIME_SHIFT_LIMBS == 5

RECURSIVE BitXor(_, _, _)
BitXor(a, b, bits) ==
    IF bits = 0 THEN 0
    ELSE ((a + b) % 2) + 2 * BitXor(a \div 2, b \div 2, bits - 1)

XorLow(h, byte) ==
    <<BitXor(h[1], byte, 8), h[2], h[3], h[4], h[5], h[6], h[7], h[8]>>

\* h * (2^40 + 0x1b3) mod 2^64, limb by limb with carry
MulPrime(h) ==
    LET t1 == h[1] * FNV_PRIME_LOW
        t2 == h[2] * FNV_PRIME_LOW + (t1 \div 256)
        t3 == h[3] * FNV_PRIME_LOW + (t2 \div 256)
        t4 == h[4] * FNV_PRIME_LOW + (t3 \div 256)
        t5 == h[5] * FNV_PRIME_LOW + (t4 \div 256)
        t6 == h[6] * FNV_PRIME_LOW + h[6 - FNV_PRIME_SHIFT_LIMBS] + (t5 \div 256)
        t7 == h[7] * FNV_PRIME_LOW + h[7 - FNV_PRIME_SHIFT_LIMBS] + (t6 \div 256)
        t8 == h[8] * FNV_PRIME_LOW + h[8 - FNV_PRIME_SHIFT_LIMBS] + (t7 \div 256)
    IN  <<t1 % 256, t2 % 256, t3 % 256, t4 % 256, t5 % 256, t6 % 256, t7 % 256, t8 % 256>>

RECURSIVE FnvWrite(_, _, _)
FnvWrite(h, str, i) ==
    IF i > Len(str) THEN h
    ELSE FnvWrite(MulPrime(XorLow(h, str[i])), str, i + 1)

fnv1a64_hash_string(str) == FnvWrite(FNV_OFFSET_BASIS, str, 1)

\* u64 order on limbs: compare from the most significant limb down
RECURSIVE LimbLess(_, _, _)
LimbLess(a, b, i) ==
    IF i = 0 THEN FALSE
    ELSE IF a[i] # b[i] THEN a[i] < b[i]
    ELSE LimbLess(a, b, i - 1)

HashLess(a, b) == LimbLess(a, b, 8)

(***************************************************************************)
(* std::path: extension, relative path string.                             *)
(***************************************************************************)
DOT == 46
SLASH == 47
BACKSLASH == 92

RECURSIVE LastIndexOf(_, _, _)
LastIndexOf(s, b, i) ==
    IF i = 0 THEN 0
    ELSE IF s[i] = b THEN i
    ELSE LastIndexOf(s, b, i - 1)

\* Path::extension of a file name: the part after the last dot, without the
\* dot; none when there is no dot or the only dot is the first character
PathExtension(file_name) ==
    LET d == LastIndexOf(file_name, DOT, Len(file_name))
    IN  IF d <= 1 THEN None
        ELSE Some(SubSeq(file_name, d + 1, Len(file_name)))

to_ascii_lowercase(s) ==
    [i \in 1..Len(s) |-> IF s[i] >= 65 /\ s[i] <= 90 THEN s[i] + 32 ELSE s[i]]

RECURSIVE JoinPath(_, _)
JoinPath(components, sep) ==
    IF Len(components) = 0 THEN <<>>
    ELSE IF Len(components) = 1 THEN components[1]
    ELSE components[1] \o <<sep>> \o JoinPath(Tail(components), sep)

FileName(components) == components[Len(components)]

ERedExtension ==
    {
      <<117,110,107,110,111,119,110>>,  \* unknown
      <<97,99,111,117,115,116,105,99,100,97,116,97>>,  \* acousticdata
      <<97,99,116,105,111,110,97,110,105,109,100,98>>,  \* actionanimdb
      <<97,105,97,114,99,104>>,  \* aiarch
      <<97,110,105,109,103,114,97,112,104>>,  \* animgraph
      <<97,110,105,109,115>>,  \* anims
      <<97,112,112>>,  \* app
      <<97,114,99,104,101,116,121,112,101,115>>,  \* archetypes
      <<97,114,101,97,115>>,  \* areas
      <<97,117,100,105,111,95,109,101,116,97,100,97,116,97>>,  \* audio_metadata
      <<97,117,100,105,111,118,101,104,99,117,114,118,101,115,101,116>>,  \* audiovehcurveset
      <<98,101,104,97,118,105,111,114>>,  \* behavior
      <<98,105,107,101,99,117,114,118,101,115,101,116>>,  \* bikecurveset
      <<98,107,50>>,  \* bk2
      <<98,110,107>>,  \* bnk
      <<99,97,109,99,117,114,118,101,115,101,116>>,  \* camcurveset
      <<99,99,115,116,97,116,101>>,  \* ccstate
      <<99,102,111,108,105,97,103,101>>,  \* cfoliage
      <<99,104,97,114,99,117,115,116,112,114,101,115,101,116>>,  \* charcustpreset
      <<99,104,114,111,109,97,115,101,116>>,  \* chromaset
      <<99,109,105,110,105,109,97,112>>,  \* cminimap
      <<99,111,109,109,117,110,105,116,121>>,  \* community
      <<99,111,110,118,101,114,115,97,116,105,111,110,115>>,  \* conversations
      <<99,111,111,107,101,100,95,109,108,115,101,116,117,112>>,  \* cooked_mlsetup
      <<99,111,111,107,101,100,97,110,105,109,115>>,  \* cookedanims
      <<99,111,111,107,101,100,97,112,112>>,  \* cookedapp
      <<99,111,111,107,101,100,112,114,101,102,97,98>>,  \* cookedprefab
      <<99,114,101,100,105,116,115>>,  \* credits
      <<99,115,118>>,  \* csv
      <<99,117,98,101,109,97,112>>,  \* cubemap
      <<99,117,114,118,101,114,101,115,115,101,116>>,  \* curveresset
      <<99,117,114,118,101,115,101,116>>,  \* curveset
      <<100,97,116>>,  \* dat
      <<100,101,118,105,99,101,115>>,  \* devices
      <<100,108,99,95,109,97,110,105,102,101,115,116>>,  \* dlc_manifest
      <<100,116,101,120>>,  \* dtex
      <<101,102,102,101,99,116>>,  \* effect
      <<101,110,116>>,  \* ent
      <<101,110,118>>,  \* env
      <<101,110,118,112,97,114,97,109>>,  \* envparam
      <<101,110,118,112,114,111,98,101>>,  \* envprobe
      <<101,115>>,  \* es
      <<102,97,99,105,97,108,99,117,115,116,111,109>>,  \* facialcustom
      <<102,97,99,105,97,108,115,101,116,117,112>>,  \* facialsetup
      <<102,98,50,116,108>>,  \* fb2tl
      <<102,110,116>>,  \* fnt
      <<102,111,108,98,114,117,115,104>>,  \* folbrush
      <<102,111,108,100,101,115,116>>,  \* foldest
      <<102,112>>,  \* fp
      <<103,97,109,101>>,  \* game
      <<103,97,109,101,100,101,102>>,  \* gamedef
      <<103,97,114,109,101,110,116,108,97,121,101,114,112,97,114,97,109,115>>,  \* garmentlayerparams
      <<103,101,110,101,114,105,99,97,110,105,109,100,98>>,  \* genericanimdb
      <<103,101,111,109,101,116,114,121,95,99,97,99,104,101>>,  \* geometry_cache
      <<103,105,100,97,116,97>>,  \* gidata
      <<103,114,97,100,105,101,110,116>>,  \* gradient
      <<104,105,116,114,101,112,114,101,115,101,110,116,97,116,105,111,110>>,  \* hitrepresentation
      <<104,112>>,  \* hp
      <<105,101,115>>,  \* ies
      <<105,110,107,97,110,105,109>>,  \* inkanim
      <<105,110,107,97,116,108,97,115>>,  \* inkatlas
      <<105,110,107,99,104,97,114,99,117,115,116,111,109,105,122,97,116,105,111,110>>,  \* inkcharcustomization
      <<105,110,107,101,110,103,105,110,101,115,101,116,116,105,110,103,115>>,  \* inkenginesettings
      <<105,110,107,102,111,110,116,102,97,109,105,108,121>>,  \* inkfontfamily
      <<105,110,107,102,117,108,108,115,99,114,101,101,110,99,111,109,112,111,115,105,116,105,111,110>>,  \* inkfullscreencomposition
      <<105,110,107,103,97,109,101,115,101,116,116,105,110,103,115>>,  \* inkgamesettings
      <<105,110,107,104,117,100>>,  \* inkhud
      <<105,110,107,108,97,121,101,114,115>>,  \* inklayers
      <<105,110,107,109,101,110,117>>,  \* inkmenu
      <<105,110,107,115,104,97,112,101,99,111,108,108,101,99,116,105,111,110>>,  \* inkshapecollection
      <<105,110,107,115,116,121,108,101>>,  \* inkstyle
      <<105,110,107,116,121,112,111,103,114,97,112,104,121>>,  \* inktypography
      <<105,110,107,119,105,100,103,101,116>>,  \* inkwidget
      <<105,110,116,101,114,97,99,116,105,111,110>>,  \* interaction
      <<106,111,117,114,110,97,108>>,  \* journal
      <<106,111,117,114,110,97,108,100,101,115,99>>,  \* journaldesc
      <<106,115,111,110>>,  \* json
      <<108,97,110,101,95,99,111,110,110,101,99,116,105,111,110,115>>,  \* lane_connections
      <<108,97,110,101,95,112,111,108,121,103,111,110,115>>,  \* lane_polygons
      <<108,97,110,101,95,115,112,111,116,115>>,  \* lane_spots
      <<108,105,103,104,116,115>>,  \* lights
      <<108,105,112,109,97,112>>,  \* lipmap
      <<108,111,99,97,116,105,111,110>>,  \* location
      <<108,111,99,111,112,97,116,104,115>>,  \* locopaths
      <<108,111,111,116>>,  \* loot
      <<109,97,112,112,105,110,115>>,  \* mappins
      <<109,97,116,108,105,98>>,  \* matlib
      <<109,101,115,104>>,  \* mesh
      <<109,105>>,  \* mi
      <<109,108,109,97,115,107>>,  \* mlmask
      <<109,108,115,101,116,117,112>>,  \* mlsetup
      <<109,108,116,101,109,112,108,97,116,101>>,  \* mltemplate
      <<109,111,114,112,104,116,97,114,103,101,116>>,  \* morphtarget
      <<109,116>>,  \* mt
      <<110,117,108,108,95,97,114,101,97,115>>,  \* null_areas
      <<111,112,117,115,105,110,102,111>>,  \* opusinfo
      <<111,112,117,115,112,97,107>>,  \* opuspak
      <<112,97,114,116,105,99,108,101>>,  \* particle
      <<112,104,121,115>>,  \* phys
      <<112,104,121,115,105,99,97,108,115,99,101,110,101>>,  \* physicalscene
      <<112,104,121,115,109,97,116,108,105,98>>,  \* physmatlib
      <<112,111,105,109,97,112,112,105,110,115>>,  \* poimappins
      <<112,115,114,101,112>>,  \* psrep
      <<113,117,101,115,116>>,  \* quest
      <<113,117,101,115,116,112,104,97,115,101>>,  \* questphase
      <<114,101,100,112,104,121,115,105,99,115>>,  \* redphysics
      <<114,101,103,105,111,110,115,101,116>>,  \* regionset
      <<114,101,109,116>>,  \* remt
      <<114,101,112,115>>,  \* reps
      <<114,101,115,108,105,115,116>>,  \* reslist
      <<114,105,103>>,  \* rig
      <<115,99,101,110,101>>,  \* scene
      <<115,99,101,110,101,114,105,100>>,  \* scenerid
      <<115,99,101,110,101,115,118,101,114,115,105,111,110,115>>,  \* scenesversions
      <<115,109,97,114,116,111,98,106,101,99,116>>,  \* smartobject
      <<115,109,97,114,116,111,98,106,101,99,116,115>>,  \* smartobjects
      <<115,112>>,  \* sp
      <<115,112,97,116,105,97,108,95,114,101,112,114,101,115,101,110,116,97,116,105,111,110>>,  \* spatial_representation
      <<115,116,114,101,97,109,105,110,103,98,108,111,99,107>>,  \* streamingblock
      <<115,116,114,101,97,109,105,110,103,113,117,101,114,121,100,97,116,97>>,  \* streamingquerydata
      <<115,116,114,101,97,109,105,110,103,115,101,99,116,111,114>>,  \* streamingsector
      <<115,116,114,101,97,109,105,110,103,115,101,99,116,111,114,95,105,110,112,108,97,99,101>>,  \* streamingsector_inplace
      <<115,116,114,101,97,109,105,110,103,119,111,114,108,100>>,  \* streamingworld
      <<116,101,114,114,97,105,110,115,101,116,117,112>>,  \* terrainsetup
      <<116,101,120,97,114,114,97,121>>,  \* texarray
      <<116,114,97,102,102,105,99,95,99,111,108,108,105,115,105,111,110,115>>,  \* traffic_collisions
      <<116,114,97,102,102,105,99,95,112,101,114,115,105,115,116,101,110,116>>,  \* traffic_persistent
      <<118,101,104,99,111,109,109,111,110,99,117,114,118,101,115,101,116>>,  \* vehcommoncurveset
      <<118,101,104,99,117,114,118,101,115,101,116>>,  \* vehcurveset
      <<118,111,105,99,101,116,97,103,115>>,  \* voicetags
      <<119,50,109,101,115,104>>,  \* w2mesh
      <<119,50,109,105>>,  \* w2mi
      <<119,101,109>>,  \* wem
      <<119,111,114,107,115,112,111,116>>,  \* workspot
      <<119,111,114,108,100,108,105,115,116>>,  \* worldlist
      <<120,98,109>>,  \* xbm
      <<120,99,117,98,101>>,  \* xcube
      <<119,100,121,110>>  \* wdyn
    }

(***************************************************************************)
(* io.rs: null-terminated strings.                                         *)
(***************************************************************************)
\* the 0-based position of the first 0 byte at or after pos, or -1
IndexOfZero(buf, pos) ==
    IF \A i \in (pos + 1)..Len(buf) : buf[i] # 0 THEN -1
    ELSE (CHOOSE i \in (pos + 1)..Len(buf) :
              buf[i] = 0 /\ \A j \in (pos + 1)..(i - 1) : buf[j] # 0) - 1

\* String::from_utf8_lossy on the model's strings: ASCII is kept, a byte that
\* is not ASCII becomes U+FFFD (EF BF BD)
RECURSIVE from_utf8_lossy(_)
from_utf8_lossy(bytes) ==
    IF Len(bytes) = 0 THEN <<>>
    ELSE (IF bytes[1] < 128 THEN <<bytes[1]>> ELSE <<239, 191, 189>>)
            \o from_utf8_lossy(Tail(bytes))

\* Ok([str, pos]) with pos after the terminator, or Err at end of input
read_null_terminated_string(buf, pos) ==
    LET z == IndexOfZero(buf, pos)
    IN  IF z < 0 THEN Err("UnexpectedEof")
        ELSE Ok([str |-> from_utf8_lossy(Bytes(buf, pos, z - pos)), pos |-> z + 1])

write_null_terminated_string(str) == str \o <<0>>

(***************************************************************************)
(* kraken.rs.  The native codec is outside the repository; it is modelled  *)
(* by a lossless run-length codec: pairs (run length 1..255, byte).        *)
(***************************************************************************)
\* concatenation of pieces[lo..hi], by halves
RECURSIVE Flatten(_, _, _)
Flatten(pieces, lo, hi) ==
    IF lo > hi THEN <<>>
    ELSE IF lo = hi THEN pieces[lo]
    ELSE Flatten(pieces, lo, (lo + hi) \div 2) \o Flatten(pieces, (lo + hi) \div 2 + 1, hi)

\* sum of f[lo..hi], by halves
RECURSIVE SumRange(_, _, _)
SumRange(f, lo, hi) ==
    IF lo > hi THEN 0
    ELSE IF lo = hi THEN f[lo]
    ELSE SumRange(f, lo, (lo + hi) \div 2) + SumRange(f, (lo + hi) \div 2 + 1, hi)

\* the position after the run of equal bytes that starts at i
RunEnd(src, i) ==
    CHOOSE j \in (i + 1)..(Len(src) + 1) :
        /\ (j = Len(src) + 1 \/ src[j] # src[i])
        /\ \A k \in (i + 1)..(j - 1) : src[k] = src[i]

\* a run of n bytes b as pairs (length 1..255, b)
RunPairs(n, b) ==
    [k \in 1..(2 * (n \div 255)) |-> IF k % 2 = 1 THEN 255 ELSE b]
        \o (IF n % 255 > 0 THEN <<n % 255, b>> ELSE <<>>)

Kraken_Compress(src) ==
    Flatten([i \in 1..Len(src) |->
                IF i = 1 \/ src[i] # src[i - 1]
                THEN RunPairs(RunEnd(src, i) - i, src[i])
                ELSE <<>>],
            1, Len(src))

KrakenWellFormed(z) ==
    /\ Len(z) % 2 = 0
    /\ \A i \in 1..Len(z) : i % 2 = 1 => z[i] >= 1

KrakenDecode(z) ==
    Flatten([k \in 1..(Len(z) \div 2) |-> Fill(z[2 * k - 1], z[2 * k])],
            1, Len(z) \div 2)

\* the number of bytes written and the output, or -1 when the stream does not
\* decode to exactly dst_len bytes
Kraken_Decompress(z, dst_len) ==
    IF KrakenWellFormed(z) /\ Len(KrakenDecode(z)) = dst_len
    THEN [n |-> dst_len, out |-> KrakenDecode(z)]
    ELSE [n |-> -1, out |-> <<>>]

\* compress with the codec bypassed up to and including 256 bytes
compress_inclusive(uncompressed_buffer) ==
    IF Len(uncompressed_buffer) <= KRAKEN_MIN_LEN
    THEN uncompressed_buffer
    ELSE Kraken_Compress(uncompressed_buffer)

\* compress: the compressed buffer, whose length is the returned zsize
compress(uncompressed_buffer) ==
    IF Len(uncompressed_buffer) < KRAKEN_MIN_LEN
    THEN uncompressed_buffer
    ELSE Kraken_Compress(uncompressed_buffer)

decompress(compressed_buffer, size) == Kraken_Decompress(compressed_buffer, size)

(***************************************************************************)
(* kraken.rs: the size estimators.  A u64 is 8 little-endian limbs; an i32 *)
(* is an integer between I32_MIN and I32_MAX.  An overflowing `+` or `*`   *)
(* panics in a build with overflow checks and wraps in a build without.    *)
(***************************************************************************)
I32_MAX == 2147483647
I32_MIN == -I32_MAX - 1

RECURSIVE BitAnd(_, _, _)
BitAnd(a, b, bits) ==
    IF bits = 0 THEN 0
    ELSE ((a % 2) * (b % 2)) + 2 * BitAnd(a \div 2, b \div 2, bits - 1)

\* u64 + u64 from limb i on with the carry c: the wrapped sum and the carry
\* out of the top limb
RECURSIVE AddLimbs(_, _, _, _)
AddLimbs(a, b, i, c) ==
    IF i > 8 THEN [v |-> <<>>, carry |-> c]
    ELSE LET t == a[i] + b[i] + c
             rest == AddLimbs(a, b, i + 1, t \div 256)
         IN  [v |-> <<t % 256>> \o rest.v, carry |-> rest.carry]

\* u64 * k for a small k: the wrapped product and the carry out
RECURSIVE MulLimbs(_, _, _, _)
MulLimbs(a, k, i, c) ==
    IF i > 8 THEN [v |-> <<>>, carry |-> c]
    ELSE LET t == a[i] * k + c
             rest == MulLimbs(a, k, i + 1, t \div 256)
         IN  [v |-> <<t % 256>> \o rest.v, carry |-> rest.carry]

\* a >> (8 * limbs + bits), bits < 8
U64Shr(a, limbs, bits) ==
    LET at(i) == IF i <= 8 THEN a[i] ELSE 0
        p == 2 ^ bits
    IN  [i \in 1..8 |-> (at(i + limbs) \div p) + (at(i + limbs + 1) % p) * (256 \div p)]

\* 0x3ffff as a u64
U64_3FFFF == <<255, 255, 3, 0, 0, 0, 0, 0>>

\* get_compressed_buffer_size_needed(count: u64) -> i32 in a build with
\* (checked) or without overflow checks
get_compressed_buffer_size_needed(count, checked) ==
    LET s1 == AddLimbs(count, U64_3FFFF, 1, 0)
        shr63 == U64Shr(s1.v, 7, 7)
        sign == [i \in 1..8 |-> BitAnd(shr63[i], U64_3FFFF[i], 8)]
        s2 == AddLimbs(s1.v, sign, 1, 0)
        blocks == U64Shr(s2.v, 2, 2)
        m == MulLimbs(blocks, 274, 1, 0)
        n == AddLimbs(m.v, count, 1, 0)
    IN  IF checked /\ (s1.carry # 0 \/ s2.carry # 0 \/ m.carry # 0 \/ n.carry # 0)
        THEN [st |-> "panic", v |-> 0]
        ELSE [st |-> "ok", v |-> I32At(n.v, 0)]

\* i32 + i32: the wrapped sum and whether it overflowed
I32Add(a, b) ==
    IF a >= 0 /\ b > I32_MAX - a
    THEN [v |-> (a + I32_MIN) + (b + I32_MIN), overflow |-> TRUE]
    ELSE IF a < 0 /\ b < I32_MIN - a
    THEN [v |-> (a - I32_MIN) + (b - I32_MIN), overflow |-> TRUE]
    ELSE [v |-> a + b, overflow |-> FALSE]

\* i32 / d for d > 0: the quotient rounded towards zero
I32Div(a, d) == IF a >= 0 THEN a \div d ELSE (a + (d - 1)) \div d

\* get_compressed_buffer_size_needed_kraken(size: i32) -> i32; 274 times the
\* quotient is below 2^22
get_compressed_buffer_size_needed_kraken(size, checked) ==
    LET s1 == I32Add(size, 262143)
        n == I32Add(size, 274 * I32Div(s1.v, 262144))
    IN  IF checked /\ (s1.overflow \/ n.overflow)
        THEN [st |-> "panic", v |-> 0]
        ELSE [st |-> "ok", v |-> n.v]

(***************************************************************************)
(* Digests.  SHA-1 and CRC-64 come from external crates and no property    *)
(* checked here reads their value; they are modelled by a length-and-sum   *)
(* checksum of the right width.                                            *)
(***************************************************************************)
ByteSum(buf) ==
    SumRange([i \in 1..Len(buf) |-> buf[i] * (1 + (i % 7))], 1, Len(buf)) % 65536

sha1_hash_file(file_buffer) ==
    U32LE(Len(file_buffer)) \o U32LE(ByteSum(file_buffer)) \o Zeros(12)

crc64(buffer) == U32LE(ByteSum(buffer)) \o U32LE(Len(buffer))

(***************************************************************************)
(* archive/lxrs.rs                                                         *)
(***************************************************************************)
RECURSIVE ConcatStrings(_)
ConcatStrings(files) ==
    IF Len(files) = 0 THEN <<>>
    ELSE write_null_terminated_string(files[1]) \o ConcatStrings(Tail(files))

\* LxrsFooter::write: the bytes written, or a panic of the size assertion
LxrsFooter_write(files) ==
    LET buffer == ConcatStrings(files)
        compressed_buffer == compress(buffer)
    IN  IF Len(compressed_buffer) > Len(buffer)
        THEN Panic("assertion failed: zsize <= size")
        ELSE Ok(U32LE(Len(files)) \o U32LE(LXRS_VERSION) \o compressed_buffer)

\* for _i in 0..count { if let Ok(s) = read_null_terminated_string(..) { push } }
\* once a read fails at end of input every later one fails too
RECURSIVE ReadStrings(_, _, _)
ReadStrings(buf, pos, count) ==
    IF count <= 0 THEN <<>>
    ELSE LET r == read_null_terminated_string(buf, pos)
         IN  IF ~IsOk(r) THEN <<>>
             ELSE <<r.v.str>> \o ReadStrings(buf, r.v.pos, count - 1)

\* LxrsFooter::from_reader on the bytes of buf from position pos on
LxrsFooter_from_reader(buf, pos) ==
    IF ~CanRead(buf, pos, 4) THEN Err("UnexpectedEof")
    ELSE IF Bytes(buf, pos, 4) # U32LE(LXRS_MAGIC) THEN Err("invalid magic")
    ELSE IF ~CanRead(buf, pos + 4, 16) THEN Err("UnexpectedEof")
    ELSE LET size == U32At(buf, pos + 8)
             zsize == U32At(buf, pos + 12)
             count == I32At(buf, pos + 16)
             body == pos + 20
         IN  IF size > zsize
             THEN IF ~CanRead(buf, body, zsize) THEN Err("UnexpectedEof")
                  ELSE LET d == decompress(Bytes(buf, body, zsize), size)
                       IN  IF d.n # size THEN Panic("assertion failed: result == size")
                           ELSE Ok(ReadStrings(d.out, 0, count))
             ELSE IF size < zsize THEN Err("invalid buffer")
             ELSE Ok(ReadStrings(buf, body, count))

(***************************************************************************)
(* cr2w.rs                                                                 *)
(***************************************************************************)
CR2W_HEADER_END == 40
CR2W_TABLE_COUNT == 10
CR2W_TABLE_SIZE == 12
CR2W_TABLES_END == 160
NAME_INFO_SIZE == 8
IMPORT_INFO_SIZE == 8
PROPERTY_INFO_SIZE == 16
EXPORT_INFO_SIZE == 24
BUFFER_INFO_SIZE == 24
EMBEDDED_INFO_SIZE == 16
OBJECTS_END_AT == 24

U16At(buf, pos) == buf[pos + 1] + 256 * buf[pos + 2]

\* "None"
NoneString == <<78, 111, 110, 101>>

\* CR2WTable::from_reader of table k (0-based)
CR2WTableAt(buf, k) ==
    [offset     |-> U32At(buf, CR2W_HEADER_END + CR2W_TABLE_SIZE * k),
     item_count |-> U32At(buf, CR2W_HEADER_END + CR2W_TABLE_SIZE * k + 4)]

\* HashMap<u32, String> as a set of [k, s]; insert replaces
MapInsert(map, k, s) == {e \in map : e.k # k} \cup {[k |-> k, s |-> s]}
MapHas(map, k) == \E e \in map : e.k = k
MapGet(map, k) == (CHOOSE e \in map : e.k = k).s

\* the loop of read_strings: `offset` is the position before the last read,
\* the test uses it; a failed read panics (expect).  The key is
\* offset - table.offset (a position before table.offset gives a key below 0,
\* standing for the wrapped u32)
RECURSIVE read_strings_loop(_, _, _, _, _)
read_strings_loop(buf, pos, offset, table, stringtable) ==
    IF offset < table.offset + table.item_count
    THEN LET r == read_null_terminated_string(buf, pos)
         IN  IF ~IsOk(r)
             THEN Panic("Failed to read a string from the string table")
             ELSE read_strings_loop(buf, r.v.pos, pos, table,
                      MapInsert(stringtable, pos - table.offset,
                                IF Len(r.v.str) = 0 THEN NoneString ELSE r.v.str))
    ELSE Ok([strings |-> stringtable, pos |-> pos])

\* read_strings starts at the reader's position
read_strings(buf, pos, table) == read_strings_loop(buf, pos, pos, table, {})

\* read_table: item_count records of rec_size bytes each from pos
read_table_fits(buf, pos, item_count, rec_size) ==
    CanRead(buf, pos, item_count * rec_size)

CR2WNameInfoAt(buf, pos) == [offset |-> U32At(buf, pos)]
CR2WImportInfoAt(buf, pos) ==
    [offset |-> U32At(buf, pos), class_name |-> U16At(buf, pos + 4),
     flags |-> U16At(buf, pos + 6)]
CR2WBufferInfoAt(buf, pos) ==
    [disk_size |-> U32At(buf, pos + 12), mem_size |-> U32At(buf, pos + 16)]

\* the table headers the six read_table calls use: names 1, imports 2, and
\* table 3 for properties, exports, buffers and embeds
NAMES_TABLE == 1
IMPORTS_TABLE == 2
PROPERTIES_TABLE == 3
EXPORTS_TABLE == 3
BUFFERS_TABLE == 3
EMBEDS_TABLE == 3

\* read_cr2w_header of a whole file buffer, reader at 0
read_cr2w_header(buf) ==
    IF ~CanRead(buf, 0, 4) THEN Err("UnexpectedEof")
    ELSE IF Bytes(buf, 0, 4) # U32LE(CR2W_MAGIC) THEN Err("invalid magic")
    ELSE IF ~CanRead(buf, 4, CR2W_TABLES_END - 4) THEN Err("UnexpectedEof")
    ELSE
    LET tables == [k \in 0..(CR2W_TABLE_COUNT - 1) |-> CR2WTableAt(buf, k)]
        s == read_strings(buf, CR2W_TABLES_END, tables[0])
    IN  IF ~IsOk(s) THEN s
        ELSE
        LET n_names   == tables[NAMES_TABLE].item_count
            n_imports == tables[IMPORTS_TABLE].item_count
            n_props   == tables[PROPERTIES_TABLE].item_count
            n_exports == tables[EXPORTS_TABLE].item_count
            n_buffers == tables[BUFFERS_TABLE].item_count
            n_embeds  == tables[EMBEDS_TABLE].item_count
            p_names   == s.v.pos
            p_imports == p_names + n_names * NAME_INFO_SIZE
            p_props   == p_imports + n_imports * IMPORT_INFO_SIZE
            p_exports == p_props + n_props * PROPERTY_INFO_SIZE
            p_buffers == p_exports + n_exports * EXPORT_INFO_SIZE
            p_embeds  == p_buffers + n_buffers * BUFFER_INFO_SIZE
            p_end     == p_embeds + n_embeds * EMBEDDED_INFO_SIZE
        IN  IF ~CanRead(buf, p_names, p_end - p_names) THEN Err("UnexpectedEof")
            ELSE
            LET names_table ==
                    [i \in 1..n_names |-> CR2WNameInfoAt(buf, p_names + (i - 1) * NAME_INFO_SIZE)]
                imports_table ==
                    [i \in 1..n_imports |->
                        CR2WImportInfoAt(buf, p_imports + (i - 1) * IMPORT_INFO_SIZE)]
                buffers_table ==
                    [i \in 1..n_buffers |->
                        CR2WBufferInfoAt(buf, p_buffers + (i - 1) * BUFFER_INFO_SIZE)]
            IN  IF \E i \in 1..n_names : ~MapHas(s.v.strings, names_table[i].offset)
                THEN Panic("called Option::unwrap() on a None value")
                ELSE IF \E i \in 1..n_imports :
                            \/ imports_table[i].class_name >= n_names
                            \/ ~MapHas(s.v.strings, imports_table[i].offset)
                THEN Panic("called Option::unwrap() on a None value")
                ELSE Ok([header |-> [objects_end |-> U32At(buf, OBJECTS_END_AT)],
                         names_table |-> names_table,
                         imports_table |-> imports_table,
                         properties_count |-> n_props,
                         exports_count |-> n_exports,
                         buffers_table |-> buffers_table,
                         embeds_count |-> n_embeds,
                         strings |-> s.v.strings,
                         pos |-> p_end])

(***************************************************************************)
(* Streams: a writer is [buf, pos]; write_all overwrites or extends.       *)
(***************************************************************************)
WriteAll(w, bytes) ==
    LET end == w.pos + Len(bytes)
    IN  [buf |-> IF w.pos >= Len(w.buf)
                 THEN w.buf \o Zeros(w.pos - Len(w.buf)) \o bytes
                 ELSE SubSeq(w.buf, 1, w.pos) \o bytes \o SubSeq(w.buf, end + 1, Len(w.buf)),
         pos |-> end]

SeekStart(w, p) == [w EXCEPT !.pos = p]

\* pad_until_page stopping one byte short of the boundary
pad_until_page_short(w) ==
    WriteAll(w, Fill((((w.pos \div PAGE) + 1) * PAGE) - w.pos - 1, PAD_BYTE))

\* pad_until_page writing nothing at a position that is already aligned
pad_until_page_lazy(w) ==
    WriteAll(w, Fill((PAGE - (w.pos % PAGE)) % PAGE, PAD_BYTE))

\* pad_until_page
pad_until_page(w) ==
    LET pos == w.pos
        modulo == pos \div PAGE
        diff == ((modulo + 1) * PAGE) - pos
    IN  WriteAll(w, Fill(diff, PAD_BYTE))

(***************************************************************************)
(* archive/file_segment.rs, file_entry.rs, header.rs                       *)
(***************************************************************************)
FILE_ENTRY_SIZE == 56
FILE_SEGMENT_SIZE == 16
DEPENDENCY_SIZE == 8
INDEX_SIZE == 28

\* FileSegment::new with the offset recorded one page late
FileSegment_new_late(offset, z_size, size) ==
    [offset |-> offset + PAGE, z_size |-> z_size, size |-> size]

FileSegment_new(offset, z_size, size) ==
    [offset |-> offset, z_size |-> z_size, size |-> size]

FileSegment_write(s) == U64LE(s.offset) \o U32LE(s.z_size) \o U32LE(s.size)

FileSegment_from_reader(buf, pos) ==
    [offset |-> U64At(buf, pos), z_size |-> U32At(buf, pos + 8),
     size |-> U32At(buf, pos + 12)]

FileEntry_new(name_hash_64, timestamp, num_inline_buffer_segments, segments_start, segments_end, resource_dependencies_start, resource_dependencies_end, sha1_hash) ==
    [name_hash_64 |-> name_hash_64, timestamp |-> timestamp,
     num_inline_buffer_segments |-> num_inline_buffer_segments,
     segments_start |-> segments_start, segments_end |-> segments_end,
     resource_dependencies_start |-> resource_dependencies_start,
     resource_dependencies_end |-> resource_dependencies_end,
     sha1_hash |-> sha1_hash]

FileEntry_write(e) ==
    e.name_hash_64 \o U64LE(e.timestamp) \o U32LE(e.num_inline_buffer_segments)
        \o U32LE(e.segments_start) \o U32LE(e.segments_end)
        \o U32LE(e.resource_dependencies_start) \o U32LE(e.resource_dependencies_end)
        \o e.sha1_hash

FileEntry_from_reader(buf, pos) ==
    [name_hash_64 |-> Bytes(buf, pos, 8), timestamp |-> U64At(buf, pos + 8),
     num_inline_buffer_segments |-> U32At(buf, pos + 16),
     segments_start |-> U32At(buf, pos + 20), segments_end |-> U32At(buf, pos + 24),
     resource_dependencies_start |-> U32At(buf, pos + 28),
     resource_dependencies_end |-> U32At(buf, pos + 32),
     sha1_hash |-> Bytes(buf, pos + 36, 20)]

Header_new(index_position, index_size, debug_position, debug_size, filesize) ==
    [magic |-> HEADER_MAGIC, version |-> HEADER_VERSION,
     index_position |-> index_position, index_size |-> index_size,
     debug_position |-> debug_position, debug_size |-> debug_size,
     filesize |-> filesize]

Header_write(h) ==
    U32LE(h.magic) \o U32LE(h.version) \o U64LE(h.index_position) \o U32LE(h.index_size)
        \o U64LE(h.debug_position) \o U32LE(h.debug_size) \o U64LE(h.filesize)

\* Header::from_reader: seven reads, no validation
Header_from_reader(buf) ==
    IF ~CanRead(buf, 0, HEADER_SIZE) THEN Err("UnexpectedEof")
    ELSE Ok([magic |-> U32At(buf, 0), version |-> U32At(buf, 4),
             index_position |-> U64At(buf, 8), index_size |-> U32At(buf, 16),
             debug_position |-> U64At(buf, 20), debug_size |-> U32At(buf, 28),
             filesize |-> U64At(buf, 32)])

(***************************************************************************)
(* archive/mod.rs: the packer                                              *)
(***************************************************************************)
\* ".bk2", ".bnk", ".opusinfo", ".wem", ".bin"
get_aligned_file_extensions ==
    { <<46, 98, 107, 50>>, <<46, 98, 110, 107>>,
      <<46, 111, 112, 117, 115, 105, 110, 102, 111>>,
      <<46, 119, 101, 109>>, <<46, 98, 105, 110>> }

\* ".bk2", ".bnk", ".opusinfo", ".wem", ".bin", ".dat", ".opuspak"
get_uncompressed_file_extensions ==
    { <<46, 98, 107, 50>>, <<46, 98, 110, 107>>,
      <<46, 111, 112, 117, 115, 105, 110, 102, 111>>,
      <<46, 119, 101, 109>>, <<46, 98, 105, 110>>,
      <<46, 100, 97, 116>>, <<46, 111, 112, 117, 115, 112, 97, 107>> }

\* "bin"
BIN == <<98, 105, 110>>

\* collect_resource_files: the filter on a path's extension
included_extensions == ERedExtension \cup {BIN}

IsResourceFile(components) ==
    LET ext == PathExtension(FileName(components))
    IN  ext.some /\ ext.v \in included_extensions

\* let ext = path.extension().unwrap().to_ascii_lowercase()
make_entry_ext(components) == to_ascii_lowercase(PathExtension(FileName(components)).v)

\* the loop over info.buffers_table of make_entry: cur is the file cursor
RECURSIVE WriteBuffers(_, _, _, _, _, _)
WriteBuffers(file_buffer, cur, buffers_table, i, w, buffers) ==
    IF i > Len(buffers_table) THEN [st |-> "ok", w |-> w, buffers |-> buffers]
    ELSE LET buffer_info == buffers_table[i]
         IN  IF ~CanRead(file_buffer, cur, buffer_info.disk_size)
             THEN [st |-> "err", w |-> w, buffers |-> buffers]
             ELSE WriteBuffers(file_buffer, cur + buffer_info.disk_size, buffers_table,
                      i + 1,
                      WriteAll(w, Bytes(file_buffer, cur, buffer_info.disk_size)),
                      Append(buffers,
                             FileSegment_new(w.pos, buffer_info.disk_size,
                                             buffer_info.mem_size)))

\* the z_size make_entry records for a KARK-framed main segment
KarkSegmentZSize(zsize) == zsize

ZipEntry(hash, name, entry, segment, buffers) ==
    [hash |-> hash, name |-> name, entry |-> entry, segment |-> segment,
     buffers |-> buffers]

\* the cooked branch of make_entry
make_entry_cr2w(file_buffer, w, hash, info) ==
    LET size == info.header.objects_end
    IN  IF ~CanRead(file_buffer, 0, size) THEN [st |-> "err", w |-> w]
        ELSE
        LET resource_buffer == Bytes(file_buffer, 0, size)
            archive_offset == w.pos
            compressed_buffer == compress(resource_buffer)
            zsize == Len(compressed_buffer)
        IN  IF zsize > size THEN [st |-> "panic", w |-> w]
            ELSE
            LET w1 == WriteAll(w, U32LE(KRAKEN_MAGIC) \o U32LE(size) \o compressed_buffer)
                segment == FileSegment_new(archive_offset, KarkSegmentZSize(zsize), size)
                b == WriteBuffers(file_buffer, size, info.buffers_table, 1, w1, <<>>)
                flags == IF Len(info.buffers_table) # 0
                         THEN Len(info.buffers_table) - 1 ELSE 0
            IN  IF b.st # "ok" THEN [st |-> b.st, w |-> b.w]
                ELSE [st |-> "ok", w |-> b.w,
                      entry |-> ZipEntry(hash, None,
                                    FileEntry_new(hash, 0, flags, 0, 0, 0, 0,
                                                  sha1_hash_file(file_buffer)),
                                    segment, b.buffers)]

\* the non-cr2w branch of make_entry
make_entry_raw(components, file_buffer, w, hash) ==
    LET ext == make_entry_ext(components)
        w1 == IF ext \in get_aligned_file_extensions THEN pad_until_page(w) ELSE w
        offset == w1.pos
        size == Len(file_buffer)
        stored == ext \in get_uncompressed_file_extensions
        compressed_buffer == compress(file_buffer)
        final_zsize == IF stored THEN size ELSE Len(compressed_buffer)
        w2 == WriteAll(w1, IF stored THEN file_buffer ELSE compressed_buffer)
    IN  IF ~stored /\ Len(compressed_buffer) > size THEN [st |-> "panic", w |-> w1]
        ELSE [st |-> "ok", w |-> w2,
              entry |-> ZipEntry(hash, None,
                            FileEntry_new(hash, 0, 0, 0, 0, 0, 0,
                                          sha1_hash_file(file_buffer)),
                            FileSegment_new(offset, final_zsize, size), <<>>)]

\* make_entry: [st, w] and, when st = "ok", the ZipEntry
make_entry(components, file_buffer, w, hash) ==
    LET info == read_cr2w_header(file_buffer)
    IN  IF info.st = "panic" THEN [st |-> "panic", w |-> w]
        ELSE IF IsOk(info) THEN make_entry_cr2w(file_buffer, w, hash, info.v)
        ELSE make_entry_raw(components, file_buffer, w, hash)

\* sort_by_key(|e| e.hash): stable insertion sort of a sequence of records
RECURSIVE InsertByHash(_, _)
InsertByHash(sorted, e) ==
    IF Len(sorted) = 0 THEN <<e>>
    ELSE IF HashLess(e.hash, sorted[Len(sorted)].hash)
    THEN Append(InsertByHash(SubSeq(sorted, 1, Len(sorted) - 1), e), sorted[Len(sorted)])
    ELSE Append(sorted, e)

RECURSIVE SortByHash(_)
SortByHash(seq) ==
    IF Len(seq) = 0 THEN <<>>
    ELSE InsertByHash(SortByHash(SubSeq(seq, 1, Len(seq) - 1)), seq[Len(seq)])

\* file_info.sort_by_key(|k| k.1)
SortFileInfo(file_info) == SortByHash(file_info)

\* the second loop with the sub-buffers left out of the count
RECURSIVE EnumerateSegmentsMainOnly(_, _, _, _)
EnumerateSegmentsMainOnly(ents, order, i, file_segments_cnt) ==
    IF i > Len(order) THEN ents
    ELSE EnumerateSegmentsMainOnly(
             [ents EXCEPT ![order[i]].entry.segments_start = file_segments_cnt,
                          ![order[i]].entry.segments_end = file_segments_cnt + 1],
             order, i + 1, file_segments_cnt + 1)

\* the second loop of write_archive: for (_hash, entry) in entries.iter_mut(),
\* in the map's iteration order
RECURSIVE EnumerateSegments(_, _, _, _)
EnumerateSegments(ents, order, i, file_segments_cnt) ==
    IF i > Len(order) THEN ents
    ELSE LET h == order[i]
             firstoffsetidx == file_segments_cnt
             lastoffsetidx == file_segments_cnt + Len(ents[h].buffers) + 1
         IN  EnumerateSegments(
                 [ents EXCEPT ![h].entry.segments_start = firstoffsetidx,
                              ![h].entry.segments_end = lastoffsetidx],
                 order, i + 1, lastoffsetidx)

\* write_index without its sort: the map's iteration order
IndexOrderUnsorted(values) == values

\* write_index: entries.values() in iteration order, then sort_by_key(hash)
IndexOrder(values) == SortByHash(values)

RECURSIVE EntryBytes(_)
EntryBytes(sorted) ==
    IF Len(sorted) = 0 THEN <<>>
    ELSE FileEntry_write(sorted[1].entry) \o EntryBytes(Tail(sorted))

RECURSIVE CollectSegments(_)
CollectSegments(sorted) ==
    IF Len(sorted) = 0 THEN <<>>
    ELSE <<sorted[1].segment>> \o sorted[1].buffers \o CollectSegments(Tail(sorted))

RECURSIVE SegmentBytes(_)
SegmentBytes(segments) ==
    IF Len(segments) = 0 THEN <<>>
    ELSE FileSegment_write(segments[1]) \o SegmentBytes(Tail(segments))

RECURSIVE SegmentCount(_)
SegmentCount(values) ==
    IF Len(values) = 0 THEN 0
    ELSE Len(values[1].buffers) + 1 + SegmentCount(Tail(values))

\* the bytes write_index writes
write_index(values) ==
    LET file_entry_count == Len(values)
        file_segment_count == SegmentCount(values)
        resource_dependency_count == 0
        sorted == IndexOrder(values)
        buffer == U32LE(file_entry_count) \o U32LE(file_segment_count)
                    \o U32LE(resource_dependency_count)
                    \o EntryBytes(sorted) \o SegmentBytes(CollectSegments(sorted))
    IN  U32LE(INDEX_TABLE_OFFSET) \o U32LE(Len(buffer) + 8) \o crc64(buffer) \o buffer

(***************************************************************************)
(* archive/mod.rs: the reader                                              *)
(***************************************************************************)
\* decompress_segment: [st, out] with the bytes given to file_writer
decompress_segment(buf, segment) ==
    IF ~CanRead(buf, segment.offset, 4) THEN [st |-> "err", out |-> <<>>]
    ELSE IF Bytes(buf, segment.offset, 4) = U32LE(KRAKEN_MAGIC)
    THEN IF ~CanRead(buf, segment.offset + 4, 4) THEN [st |-> "err", out |-> <<>>]
         ELSE LET size_in_header == U32At(buf, segment.offset + 4)
                  size == IF size_in_header # segment.size THEN size_in_header
                          ELSE segment.size
              IN  \* vec![0; segment.z_size() as usize - 8]
                  IF segment.z_size - 8 < 0 THEN [st |-> "panic", out |-> <<>>]
                  ELSE IF ~CanRead(buf, segment.offset + 8, segment.z_size - 8)
                  THEN [st |-> "err", out |-> <<>>]
                  ELSE LET d == decompress(Bytes(buf, segment.offset + 8,
                                                 segment.z_size - 8), size)
                       IN  IF d.n # size THEN [st |-> "panic", out |-> <<>>]
                           ELSE [st |-> "ok", out |-> d.out]
    ELSE \* incorrect data, fall back to direct copy
         IF ~CanRead(buf, segment.offset, segment.z_size)
         THEN [st |-> "err", out |-> <<>>]
         ELSE [st |-> "ok", out |-> Bytes(buf, segment.offset, segment.z_size)]

\* the loop over the sub-buffers of extract_segments
RECURSIVE CopyBuffers(_, _, _, _)
CopyBuffers(buf, buffers, i, out) ==
    IF i > Len(buffers) THEN [st |-> "ok", out |-> out]
    ELSE IF ~CanRead(buf, buffers[i].offset, buffers[i].z_size)
    THEN [st |-> "err", out |-> out]
    ELSE CopyBuffers(buf, buffers, i + 1,
                     out \o Bytes(buf, buffers[i].offset, buffers[i].z_size))

\* extract_segments / open_entry: [st, out] with the bytes given to the writer
extract_segments(buf, entry) ==
    LET segment == entry.segment
        main == IF segment.size = segment.z_size
                THEN IF ~CanRead(buf, segment.offset, segment.z_size)
                     THEN [st |-> "err", out |-> <<>>]
                     ELSE [st |-> "ok", out |-> Bytes(buf, segment.offset, segment.z_size)]
                ELSE decompress_segment(buf, segment)
    IN  IF main.st # "ok" THEN main
        ELSE CopyBuffers(buf, entry.buffers, 1, main.out)

\* the footer names of from_reader_consume: hash -> path, as a set of [k, s]
RECURSIVE FooterNames(_, _)
FooterNames(files, n) ==
    IF n = 0 THEN {}
    ELSE MapInsert(FooterNames(files, n - 1), fnv1a64_hash_string(files[n]), files[n])

\* file_entries: HashMap<u64, FileEntry>, a later record replacing an earlier
\* one with the same hash
RECURSIVE ReadFileEntries(_, _, _)
ReadFileEntries(buf, pos, count) ==
    IF count = 0 THEN {}
    ELSE LET rest == ReadFileEntries(buf, pos, count - 1)
             e == FileEntry_from_reader(buf, pos + (count - 1) * FILE_ENTRY_SIZE)
         IN  {x \in rest : x.name_hash_64 # e.name_hash_64} \cup {e}

\* the wrapper of one entry, none when segments_start is out of range
RECURSIVE SubBuffers(_, _, _)
SubBuffers(file_segments, i, next_index) ==
    IF i >= next_index THEN <<>>
    ELSE (IF i < Len(file_segments) THEN <<file_segments[i + 1]>> ELSE <<>>)
            \o SubBuffers(file_segments, i + 1, next_index)

\* the wrapper with the range's end, not its start, tested against the table
WrapEntryEndTested(entry, file_segments, file_names) ==
    LET start_index == entry.segments_start
        next_index == entry.segments_end
        resolved == IF MapHas(file_names, entry.name_hash_64)
                    THEN Some(MapGet(file_names, entry.name_hash_64)) ELSE None
    IN  IF next_index < Len(file_segments)
        THEN Some(ZipEntry(entry.name_hash_64, resolved, entry,
                           file_segments[start_index + 1],
                           SubBuffers(file_segments, start_index + 1, next_index)))
        ELSE None

\* the wrapper with the last segment of the range taken as the main segment
WrapEntryMainAtEnd(entry, file_segments, file_names) ==
    LET start_index == entry.segments_start
        next_index == entry.segments_end
        resolved == IF MapHas(file_names, entry.name_hash_64)
                    THEN Some(MapGet(file_names, entry.name_hash_64)) ELSE None
    IN  IF start_index < Len(file_segments) /\ next_index >= 1
                                            /\ next_index <= Len(file_segments)
        THEN Some(ZipEntry(entry.name_hash_64, resolved, entry,
                           file_segments[next_index],
                           SubBuffers(file_segments, start_index + 1, next_index)))
        ELSE None

WrapEntry(entry, file_segments, file_names) ==
    LET start_index == entry.segments_start
        next_index == entry.segments_end
        resolved == IF MapHas(file_names, entry.name_hash_64)
                    THEN Some(MapGet(file_names, entry.name_hash_64)) ELSE None
    IN  IF start_index < Len(file_segments)
        THEN Some(ZipEntry(entry.name_hash_64, resolved, entry,
                           file_segments[start_index + 1],
                           SubBuffers(file_segments, start_index + 1, next_index)))
        ELSE None

\* from_reader_consume: the empty handle of Create mode, or the handle read
\* from the file in Read or Update mode
from_reader_consume(buf, mode) ==
    LET header == Header_from_reader(buf)
    IN  IF mode = "Create"
        THEN Ok([stream |-> buf, mode |-> mode, dirty |-> TRUE,
                 entries |-> [h \in {} |-> 0], dependencies |-> 0])
        ELSE IF ~IsOk(header) THEN header
        ELSE
        LET footer == IF CanRead(buf, HEADER_SIZE, 4) /\ U32At(buf, HEADER_SIZE) > 0
                      THEN LxrsFooter_from_reader(buf, HEADER_EXTENDED_SIZE)
                      ELSE Err("no custom data")
            file_names == IF IsOk(footer) THEN FooterNames(footer.v, Len(footer.v)) ELSE {}
            ip == header.v.index_position
        IN  IF footer.st = "panic" THEN footer
            ELSE IF ~CanRead(buf, ip, INDEX_SIZE) THEN Err("UnexpectedEof")
            ELSE
            LET file_entry_count == U32At(buf, ip + 16)
                file_segment_count == U32At(buf, ip + 20)
                resource_dependency_count == U32At(buf, ip + 24)
                p_entries == ip + INDEX_SIZE
                p_segments == p_entries + file_entry_count * FILE_ENTRY_SIZE
                p_deps == p_segments + file_segment_count * FILE_SEGMENT_SIZE
                p_end == p_deps + resource_dependency_count * DEPENDENCY_SIZE
            IN  IF ~CanRead(buf, p_entries, p_end - p_entries) THEN Err("UnexpectedEof")
                ELSE
                LET file_entries == ReadFileEntries(buf, p_entries, file_entry_count)
                    file_segments ==
                        [i \in 1..file_segment_count |->
                            FileSegment_from_reader(buf,
                                p_segments + (i - 1) * FILE_SEGMENT_SIZE)]
                    kept == {e \in file_entries :
                                WrapEntry(e, file_segments, file_names).some}
                IN  Ok([stream |-> buf, mode |-> mode, dirty |-> FALSE,
                        entries |-> [h \in {e.name_hash_64 : e \in kept} |->
                            WrapEntry(CHOOSE e \in kept : e.name_hash_64 = h,
                                      file_segments, file_names).v],
                        dependencies |-> resource_dependency_count])

\* create_entry: [st, archive]; in Update mode the dirty flag is set and
\* todo!() panics
create_entry(handle) ==
    IF handle.mode # "Update" THEN [st |-> "err", kind |-> "InvalidData", archive |-> handle]
    ELSE [st |-> "panic", kind |-> "not yet implemented",
          archive |-> [handle EXCEPT !.dirty = TRUE]]

\* delete_entry with the mode not looked at
delete_entry_any_mode(handle, hash) ==
    [removed |-> IF hash \in DOMAIN handle.entries THEN Some(handle.entries[hash]) ELSE None,
     archive |-> [handle EXCEPT !.dirty = TRUE,
                                !.entries = [h \in DOMAIN handle.entries \ {hash} |->
                                                handle.entries[h]]]]

\* delete_entry: [removed, archive]
delete_entry(handle, hash) ==
    IF handle.mode # "Update" THEN [removed |-> None, archive |-> handle]
    ELSE [removed |-> IF hash \in DOMAIN handle.entries
                      THEN Some(handle.entries[hash]) ELSE None,
          archive |-> [handle EXCEPT !.dirty = TRUE,
                                     !.entries = [h \in DOMAIN handle.entries \ {hash} |->
                                                     handle.entries[h]]]]

(***************************************************************************)
(* Extraction to a directory.  The destination directory is a record of    *)
(* its files (a map from the path under the destination to the bytes) and  *)
(* of the directories created under it.                                    *)
(***************************************************************************)
\* one step of the long division of a little-endian 64-bit value by ten:
\* limbs i..1 with the remainder r carried in
RECURSIVE DivLimbs10(_, _, _)
DivLimbs10(h, i, r) ==
    IF i = 0 THEN [q |-> <<>>, r |-> r]
    ELSE LET cur == r * 256 + h[i]
             rest == DivLimbs10(h, i - 1, cur % 10)
         IN  [q |-> rest.q \o <<cur \div 10>>, r |-> rest.r]

\* format!("{}", hash): the decimal digits of a u64
RECURSIVE format_u64(_)
format_u64(h) ==
    LET d == DivLimbs10(h, 8, 0)
    IN  IF \A i \in 1..8 : d.q[i] = 0 THEN <<48 + d.r>>
        ELSE format_u64(d.q) \o <<48 + d.r>>

\* ZipEntry::get_resolved_name
get_resolved_name(entry, map) ==
    Some(IF entry.name.some THEN entry.name.v
         ELSE IF MapHas(map, entry.hash) THEN MapGet(map, entry.hash)
         ELSE format_u64(entry.hash) \o <<DOT>> \o BIN)

\* the directories create_dir_all(outfile.parent()) makes under the
\* destination: every proper prefix of the name that ends before a separator
Ancestors(name, sep) ==
    {SubSeq(name, 1, i - 1) : i \in {j \in 2..Len(name) : name[j] = sep}}

\* File::create whatever the policy
open_outfile_truncating(files, outfile, overwrite_files) ==
    Ok(MapInsert(files, outfile, <<>>))

\* lines 574-582: File::create when overwrite_files, create_new otherwise
open_outfile(files, outfile, overwrite_files) ==
    IF overwrite_files THEN Ok(MapInsert(files, outfile, <<>>))
    ELSE IF MapHas(files, outfile) THEN Err("AlreadyExists")
    ELSE Ok(MapInsert(files, outfile, <<>>))

\* ZipArchive::extract_entry: [st, kind, fs, outfile]
extract_entry(stream, fs, entry, sep, overwrite_files, map) ==
    LET info == get_resolved_name(entry, map)
    IN  IF ~info.some
        THEN [st |-> "err", kind |-> "InvalidData", fs |-> fs, outfile |-> <<>>]
        ELSE
        LET outfile == info.v
            dirs == fs.dirs \cup Ancestors(outfile, sep)
            fs_open == open_outfile(fs.files, outfile, overwrite_files)
        IN  IF ~IsOk(fs_open)
            THEN [st |-> "err", kind |-> fs_open.kind,
                  fs |-> [files |-> fs.files, dirs |-> dirs], outfile |-> outfile]
            ELSE LET r == extract_segments(stream, entry)
                 IN  [st |-> r.st, kind |-> IF r.st = "ok" THEN "" ELSE "segments",
                      fs |-> [files |-> MapInsert(fs_open.v, outfile, r.out),
                              dirs |-> dirs],
                      outfile |-> outfile]

\* ZipArchive::extract_to_directory: the entries in the map's iteration
\* order, stopping at the first failure
RECURSIVE extract_to_directory(_, _, _, _, _, _, _, _)
extract_to_directory(stream, fs, zip_entries, order, i, sep, overwrite_files, map) ==
    IF i > Len(order) THEN [st |-> "ok", kind |-> "", fs |-> fs]
    ELSE LET r == extract_entry(stream, fs, zip_entries[order[i]], sep,
                                overwrite_files, map)
         IN  IF r.st # "ok" THEN [st |-> r.st, kind |-> r.kind, fs |-> r.fs]
             ELSE extract_to_directory(stream, r.fs, zip_entries, order, i + 1, sep,
                                       overwrite_files, map)

(***************************************************************************)
(* The files the packed directory is drawn from.                           *)
(***************************************************************************)
\* 160 bytes: magic, CR2WFileHeader, ten CR2WTable records; tables is a
\* sequence of ten <<offset, item_count>>
RECURSIVE Cr2wTableBytes(_)
Cr2wTableBytes(tables) ==
    IF Len(tables) = 0 THEN <<>>
    ELSE U32LE(tables[1][1]) \o U32LE(tables[1][2]) \o U32LE(0)
            \o Cr2wTableBytes(Tail(tables))

Cr2wHeaderBytes(objects_end, buffers_end, tables) ==
    U32LE(CR2W_MAGIC) \o U32LE(195) \o U32LE(0) \o U64LE(0) \o U32LE(0)
        \o U32LE(objects_end) \o U32LE(buffers_end) \o U32LE(0) \o U32LE(1)
        \o Cr2wTableBytes(tables)

Cr2wBufferRecord(offset, disk_size, mem_size) ==
    U32LE(0) \o U32LE(0) \o U32LE(offset) \o U32LE(disk_size) \o U32LE(mem_size)
        \o U32LE(0)

\* a cooked mesh: no strings, names or imports; one property, one export, one
\* buffer record; objects up to 300; then the 5 bytes of the sub-buffer
MeshData ==
    Cr2wHeaderBytes(300, 305,
        << <<160, 0>>, <<160, 0>>, <<160, 0>>, <<160, 1>>, <<176, 1>>, <<200, 1>>,
           <<224, 0>>, <<0, 0>>, <<0, 0>>, <<0, 0>> >>)
        \o Zeros(16) \o Zeros(24) \o Cr2wBufferRecord(300, 5, 9)
        \o Fill(76, 33) \o <<11, 12, 13, 14, 15>>

\* a cooked entity of 200 bytes: empty tables, 40 bytes of objects
EntData ==
    Cr2wHeaderBytes(200, 200,
        << <<160, 0>>, <<160, 0>>, <<160, 0>>, <<160, 0>>, <<160, 0>>, <<160, 0>>,
           <<160, 0>>, <<0, 0>>, <<0, 0>>, <<0, 0>> >>)
        \o Fill(40, 34)

\* a cooked file whose 4-byte string table ends before its string does
CutData ==
    Cr2wHeaderBytes(163, 163,
        << <<160, 4>>, <<160, 0>>, <<160, 0>>, <<160, 0>>, <<160, 0>>, <<160, 0>>,
           <<160, 0>>, <<0, 0>>, <<0, 0>>, <<0, 0>> >>)
        \o <<97, 98, 99>>

Catalogue ==
    { \* a.bin
      [path |-> << <<97, 46, 98, 105, 110>> >>, data |-> <<1, 2, 3, 4, 5>>],
      \* b.wem
      [path |-> << <<98, 46, 119, 101, 109>> >>, data |-> Fill(200, 7) \o Fill(100, 9)],
      \* base/c.json
      [path |-> << <<98, 97, 115, 101>>, <<99, 46, 106, 115, 111, 110>> >>,
       data |-> Fill(130, 123) \o Fill(130, 125)],
      \* d.mesh
      [path |-> << <<100, 46, 109, 101, 115, 104>> >>, data |-> MeshData],
      \* e.ent
      [path |-> << <<101, 46, 101, 110, 116>> >>, data |-> EntData],
      \* f.mesh
      [path |-> << <<102, 46, 109, 101, 115, 104>> >>, data |-> CutData] }

\* the caller's dictionary: base\c.json and a.bin
VanillaMap ==
    { [k |-> fnv1a64_hash_string(<<98, 97, 115, 101, 92, 99, 46, 106, 115, 111, 110>>),
       s |-> <<98, 97, 115, 101, 92, 99, 46, 106, 115, 111, 110>>],
      [k |-> fnv1a64_hash_string(<<97, 46, 98, 105, 110>>),
       s |-> <<97, 46, 98, 105, 110>>] }

\* the sequences that enumerate a finite set once each: an iteration order
Orders(S) ==
    {s \in [1..Cardinality(S) -> S] : \A i, j \in 1..Cardinality(S) : s[i] = s[j] => i = j}

(***************************************************************************)
(* State.                                                                  *)
(***************************************************************************)
VARIABLES
    in_folder,           \* the files of the source directory: [path, data]
    os_sep,              \* the path separator of the platform
    hash_map,            \* the caller's dictionary
    pc,                  \* where write_archive / the reader stands
    file_info,           \* write_archive: the sorted (path, hash) list
    custom_paths,        \* write_archive: the paths staged in the footer
    next_file,           \* write_archive: index of the next file to pack
    archive_writer,      \* the output stream: [buf, pos]
    custom_data_length,  \* write_archive: length of the staged footer
    entries,             \* write_archive: hash -> ZipEntry
    map_order,           \* the iteration order of `entries`
    tableoffset,         \* write_archive: position of the index
    tablesize,           \* write_archive: length of the index
    archive,             \* the handle from_reader_consume returned
    extracted,           \* the result of the last open_entry: [hash, st, out]
    in_folder_exists,    \* whether the source directory exists
    destination,         \* where the archive goes: a stream, or a path
    dest_exists,         \* whether there is a file at the destination path
    out_dir,             \* the directory entries are extracted to
    last,                \* the last extraction call and its result
    call,                \* the arguments of a function applied on its own
    ret                  \* and what it returned

vars == <<in_folder, os_sep, hash_map, pc, file_info, custom_paths, next_file,
          archive_writer, custom_data_length, entries, map_order, tableoffset,
          tablesize, archive, extracted, in_folder_exists, destination,
          dest_exists, out_dir, last, call, ret>>

\* what the packer and the reader leave alone
io_vars == <<in_folder_exists, destination, out_dir, last, call, ret>>

\* the destinations of create_from_directory (a stream the caller made) and
\* of create_from_directory_path (a path with or without a file)
Destinations ==
    {[kind |-> "stream", existed |-> TRUE],
     [kind |-> "path", existed |-> FALSE],
     [kind |-> "path", existed |-> TRUE]}

\* the bytes of a file already at the destination path: "OLD"
OldArchive == <<79, 76, 68>>

EmptyDir == [files |-> {}, dirs |-> {}]

NoExtract ==
    [n |-> 0, op |-> "none", hash |-> <<>>, overwrite_files |-> FALSE, hash_map |-> {},
     st |-> "", kind |-> "", outfile |-> <<>>, fresh |-> FALSE]

EmptyMap == [h \in {} |-> 0]

Init ==
    /\ in_folder_exists \in BOOLEAN
    /\ destination \in Destinations
    /\ dest_exists = destination.existed
    \* a path destination is followed with an empty or a missing source
    \* directory: once File::create has made the file, packing is the same
    /\ in_folder \in IF in_folder_exists /\ destination.kind = "stream"
                     THEN {S \in SUBSET Catalogue : Cardinality(S) <= MaxFiles}
                     ELSE {{}}
    /\ os_sep \in {SLASH, BACKSLASH}
    /\ hash_map \in {{}, VanillaMap}
    /\ pc = "start"
    /\ file_info = <<>>
    /\ custom_paths = <<>>
    /\ next_file = 1
    /\ archive_writer =
           [buf |-> IF destination.kind = "path" /\ destination.existed
                    THEN OldArchive ELSE <<>>,
            pos |-> 0]
    /\ custom_data_length = 0
    /\ entries = EmptyMap
    /\ map_order = <<>>
    /\ tableoffset = 0
    /\ tablesize = 0
    /\ archive = None
    /\ extracted = None
    /\ out_dir = EmptyDir
    /\ last = NoExtract
    /\ call = None
    /\ ret = None

(***************************************************************************)
(* write_archive                                                           *)
(***************************************************************************)
\* relative_path.to_str() of a collected file
RelPath(f) == JoinPath(f.path, os_sep)

\* filter(contains_key) then map(strip_prefix) over the sorted file_info
RECURSIVE CustomPaths(_, _, _)
CustomPaths(info, map, sep) ==
    IF Len(info) = 0 THEN <<>>
    ELSE (IF MapHas(map, info[1].hash) THEN <<JoinPath(info[1].path, sep)>> ELSE <<>>)
            \o CustomPaths(Tail(info), map, sep)

\* the stream write_archive is given: the caller's, or the file that
\* create_from_directory_path made with File::create (empty, at position 0)
out_stream ==
    IF destination.kind = "path" THEN [buf |-> <<>>, pos |-> 0] ELSE archive_writer

\* a header with magic and version written at the start instead of zeros
write_header_first(w) ==
    WriteAll(WriteAll(w, Header_write(Header_new(0, 0, 0, 0, 0))), Zeros(HEADER_PADDING))

\* lines 227-229: the empty header and its padding
write_empty_header(w) ==
    WriteAll(WriteAll(w, Zeros(HEADER_SIZE)), Zeros(HEADER_PADDING))

\* create_from_directory[_path], then lines 183-237 of write_archive: the
\* check of the source directory, collect, hash, sort, stage the empty header
\* and the footer
WriteArchiveBegin ==
    /\ pc = "start"
    /\ dest_exists' = TRUE
    /\ IF ~in_folder_exists
       THEN /\ pc' = "invalid_input"
            /\ archive_writer' = out_stream
            /\ UNCHANGED <<file_info, custom_paths, custom_data_length>>
       ELSE
       \E walk \in Orders({f \in in_folder : IsResourceFile(f.path)}) :
        LET info == SortFileInfo([i \in 1..Len(walk) |->
                        [path |-> walk[i].path, data |-> walk[i].data,
                         hash |-> fnv1a64_hash_string(RelPath(walk[i]))]])
            paths == CustomPaths(info, hash_map, os_sep)
            w0 == write_empty_header(out_stream)
            footer == LxrsFooter_write(paths)
        IN  /\ file_info' = info
            /\ custom_paths' = paths
            /\ IF Len(paths) = 0
               THEN /\ archive_writer' = w0
                    /\ custom_data_length' = 0
                    /\ pc' = "files"
               ELSE IF IsOk(footer)
               THEN /\ archive_writer' = WriteAll(w0, footer.v)
                    /\ custom_data_length' = Len(footer.v)
                    /\ pc' = "files"
               ELSE /\ archive_writer' = WriteAll(w0, U32LE(Len(paths)) \o U32LE(LXRS_VERSION))
                    /\ custom_data_length' = 0
                    /\ pc' = "panic"
    /\ UNCHANGED <<in_folder, os_sep, hash_map, next_file, entries, map_order,
                   tableoffset, tablesize, archive, extracted>>
    /\ UNCHANGED io_vars

\* lines 242-246: one iteration of the loop over file_info
PackFile ==
    /\ pc = "files"
    /\ next_file <= Len(file_info)
    /\ LET f == file_info[next_file]
           r == make_entry(f.path, f.data, archive_writer, f.hash)
       IN  /\ archive_writer' = r.w
           /\ IF r.st = "ok"
              THEN /\ entries' = [h \in DOMAIN entries \cup {f.hash} |->
                                     IF h = f.hash THEN r.entry ELSE entries[h]]
                   /\ next_file' = next_file + 1
                   /\ pc' = "files"
              ELSE /\ UNCHANGED <<entries, next_file>>
                   /\ pc' = r.st
    /\ UNCHANGED <<in_folder, os_sep, hash_map, file_info, custom_paths,
                   custom_data_length, map_order, tableoffset, tablesize, archive,
                   extracted>>
    /\ UNCHANGED <<dest_exists, io_vars>>

\* entries.values() in the map's iteration order
Values(ents, order) == [i \in 1..Len(order) |-> ents[order[i]]]

\* lines 248-270: enumerate the segments, pad, write the index
WriteTables ==
    /\ pc = "files"
    /\ next_file > Len(file_info)
    /\ \E order \in Orders(DOMAIN entries) :
        LET ents == EnumerateSegments(entries, order, 1, 0)
            w1 == pad_until_page(archive_writer)
            w2 == WriteAll(w1, write_index(Values(ents, order)))
        IN  /\ map_order' = order
            /\ entries' = ents
            /\ tableoffset' = w1.pos
            /\ tablesize' = w2.pos - w1.pos
            /\ archive_writer' = w2
    /\ pc' = "tables"
    /\ UNCHANGED <<in_folder, os_sep, hash_map, file_info, custom_paths, next_file,
                   custom_data_length, archive, extracted>>
    /\ UNCHANGED <<dest_exists, io_vars>>

\* lines 272-282: pad, then write the header and custom_data_length at 0
PatchHeader ==
    /\ pc = "tables"
    /\ LET w1 == pad_until_page(archive_writer)
           filesize == w1.pos
           header == Header_new(tableoffset, tablesize, 0, 0, filesize)
           w2 == WriteAll(SeekStart(w1, 0), Header_write(header))
       IN  archive_writer' = WriteAll(w2, U32LE(custom_data_length))
    /\ pc' = "done"
    /\ UNCHANGED <<in_folder, os_sep, hash_map, file_info, custom_paths, next_file,
                   custom_data_length, entries, map_order, tableoffset, tablesize,
                   archive, extracted>>
    /\ UNCHANGED <<dest_exists, io_vars>>

(***************************************************************************)
(* The reader on the archive just written.                                 *)
(***************************************************************************)
\* open_read: from_reader_consume(file, ArchiveMode::Read)
OpenRead ==
    /\ pc = "done"
    /\ LET r == from_reader_consume(archive_writer.buf, "Read")
       IN  IF IsOk(r)
           THEN archive' = Some(r.v) /\ pc' = "open"
           ELSE archive' = None /\ pc' = "open_" \o r.st
    /\ UNCHANGED <<in_folder, os_sep, hash_map, file_info, custom_paths, next_file,
                   archive_writer, custom_data_length, entries, map_order,
                   tableoffset, tablesize, extracted>>
    /\ UNCHANGED <<dest_exists, io_vars>>

\* open_entry(entry, writer) for an entry of the handle
OpenEntry ==
    /\ pc = "open"
    /\ last.n = 0
    /\ ~call.some
    /\ \E h \in DOMAIN archive.v.entries :
        LET r == extract_segments(archive.v.stream, archive.v.entries[h])
        IN  extracted' = Some([hash |-> h, st |-> r.st, out |-> r.out])
    /\ UNCHANGED <<in_folder, os_sep, hash_map, pc, file_info, custom_paths,
                   next_file, archive_writer, custom_data_length, entries, map_order,
                   tableoffset, tablesize, archive>>
    /\ UNCHANGED <<dest_exists, io_vars>>

\* an archive file whose header another program wrote: the written archive
\* with the magic and version fields replaced
WithHeader(buf, magic, version) ==
    U32LE(magic) \o U32LE(version) \o SubSeq(buf, 9, Len(buf))

\* the (magic, version) pairs of such files: a zero magic, an older version
ForeignHeaders ==
    ({HEADER_MAGIC, 0} \X {HEADER_VERSION, HEADER_VERSION - 1})
        \ {<<HEADER_MAGIC, HEADER_VERSION>>}

\* open(archive_file_name, mode) with mode Read or Update on such a file
OpenForeign ==
    /\ pc = "done"
    /\ \E mode \in {"Read", "Update"} : \E h \in ForeignHeaders :
        LET r == from_reader_consume(WithHeader(archive_writer.buf, h[1], h[2]), mode)
        IN  IF IsOk(r)
            THEN archive' = Some(r.v) /\ pc' = "open_foreign"
            ELSE archive' = None /\ pc' = "open_foreign_" \o r.st
    /\ UNCHANGED <<in_folder, os_sep, hash_map, file_info, custom_paths, next_file,
                   archive_writer, custom_data_length, entries, map_order,
                   tableoffset, tablesize, extracted>>
    /\ UNCHANGED <<dest_exists, io_vars>>

\* extract_entry of one entry of the opened archive.  A handle is used
\* either for open_entry, or for extraction to a directory, or for
\* create_entry and delete_entry; for at most MaxExtracts extractions; a
\* panic ends the process.
ExtractEntry ==
    /\ pc = "open"
    /\ ~extracted.some
    /\ ~call.some
    /\ last.n < MaxExtracts
    /\ last.st # "panic"
    /\ \E h \in DOMAIN archive.v.entries : \E overwrite_files \in BOOLEAN :
       \E map \in {{}, VanillaMap} :
        LET r == extract_entry(archive.v.stream, out_dir, archive.v.entries[h], os_sep,
                               overwrite_files, map)
        IN  /\ out_dir' = r.fs
            /\ last' = [n |-> last.n + 1, op |-> "extract_entry", hash |-> h,
                        overwrite_files |-> overwrite_files, hash_map |-> map,
                        st |-> r.st, kind |-> r.kind, outfile |-> r.outfile,
                        fresh |-> out_dir = EmptyDir]
    /\ UNCHANGED <<in_folder, os_sep, hash_map, pc, file_info, custom_paths,
                   next_file, archive_writer, custom_data_length, entries, map_order,
                   tableoffset, tablesize, archive, extracted>>
    /\ UNCHANGED <<in_folder_exists, destination, dest_exists, call, ret>>

\* extract_to_directory of the opened archive, as the first call on it
ExtractToDirectory ==
    /\ pc = "open"
    /\ ~extracted.some
    /\ ~call.some
    /\ last.n = 0
    /\ last.n < MaxExtracts
    /\ \E order \in Orders(DOMAIN archive.v.entries) : \E overwrite_files \in BOOLEAN :
       \E map \in {{}, VanillaMap} :
        LET r == extract_to_directory(archive.v.stream, out_dir, archive.v.entries,
                                      order, 1, os_sep, overwrite_files, map)
        IN  /\ out_dir' = r.fs
            /\ last' = [n |-> last.n + 1, op |-> "extract_to_directory", hash |-> <<>>,
                        overwrite_files |-> overwrite_files, hash_map |-> map,
                        st |-> r.st, kind |-> r.kind, outfile |-> <<>>,
                        fresh |-> out_dir = EmptyDir]
    /\ UNCHANGED <<in_folder, os_sep, hash_map, pc, file_info, custom_paths,
                   next_file, archive_writer, custom_data_length, entries, map_order,
                   tableoffset, tablesize, archive, extracted>>
    /\ UNCHANGED <<in_folder_exists, destination, dest_exists, call, ret>>

\* open(archive_file_name, ArchiveMode::Create): File::create empties the
\* file, the handle has no entries
OpenCreate ==
    /\ pc = "done"
    /\ archive_writer' = [buf |-> <<>>, pos |-> 0]
    /\ archive' = Some(from_reader_consume(<<>>, "Create").v)
    /\ pc' = "open_create"
    /\ UNCHANGED <<in_folder, os_sep, hash_map, file_info, custom_paths, next_file,
                   custom_data_length, entries, map_order, tableoffset, tablesize,
                   extracted>>
    /\ UNCHANGED <<dest_exists, io_vars>>

\* create_entry(file_path, level) on a handle, any number of times; the
\* Read handles followed are those of the archive as it was written
CreateEntry ==
    /\ pc \in {"open", "open_create", "open_foreign"}
    /\ pc = "open_foreign" => archive.v.mode = "Update"
    /\ last.n = 0
    /\ ~extracted.some
    /\ LET r == create_entry(archive.v)
       IN  /\ archive' = Some(r.archive)
           /\ pc' = IF r.st = "panic" THEN "todo" ELSE pc
           /\ call' = Some([fn |-> "create_entry", hash |-> <<>>])
           /\ ret' = Some([st |-> r.st, removed |-> None])
    /\ UNCHANGED <<in_folder, os_sep, hash_map, file_info, custom_paths, next_file,
                   archive_writer, custom_data_length, entries, map_order,
                   tableoffset, tablesize, extracted>>
    /\ UNCHANGED <<in_folder_exists, destination, dest_exists, out_dir, last>>

\* delete_entry(hash) on a handle, for the hash of an entry or a hash the
\* archive does not hold, any number of times
DeleteEntry ==
    /\ pc \in {"open", "open_create", "open_foreign"}
    /\ pc = "open_foreign" => archive.v.mode = "Update"
    /\ last.n = 0
    /\ ~extracted.some
    /\ \E hash \in DOMAIN archive.v.entries \cup {Zeros(8)} :
        LET r == delete_entry(archive.v, hash)
        IN  /\ archive' = Some(r.archive)
            /\ call' = Some([fn |-> "delete_entry", hash |-> hash])
            /\ ret' = Some([st |-> "ok", removed |-> r.removed])
    /\ UNCHANGED <<in_folder, os_sep, hash_map, pc, file_info, custom_paths, next_file,
                   archive_writer, custom_data_length, entries, map_order,
                   tableoffset, tablesize, extracted>>
    /\ UNCHANGED <<in_folder_exists, destination, dest_exists, out_dir, last>>

Next ==
    \/ WriteArchiveBegin
    \/ PackFile
    \/ WriteTables
    \/ PatchHeader
    \/ OpenRead
    \/ OpenForeign
    \/ OpenCreate
    \/ CreateEntry
    \/ DeleteEntry
    \/ OpenEntry
    \/ ExtractEntry
    \/ ExtractToDirectory

Spec == Init /\ [][Next]_vars

(***************************************************************************)
(* The functions applied on their own: compress, the two size estimators   *)
(* and collect_resource_files.  `call` holds the arguments, `ret` the       *)
(* result; the packer and the reader stand still.                          *)
(***************************************************************************)
\* the lengths tried: around 0 and around the 256-byte threshold
CompressInputs ==
    LET lens == (0..MaxSlack) \cup ((KRAKEN_MIN_LEN - MaxSlack)..(KRAKEN_MIN_LEN + MaxSlack))
    IN  {Fill(n, 0) : n \in lens} \cup {Fill(n, 65) : n \in lens}
            \cup {Fill(n - 1, 7) \o <<9>> : n \in lens \ {0}}

\* sizes at both ends of a 0x40000 block, for the first blocks, a late block
\* and the last block of the i32 range, and the sizes of the test
SizeInputs ==
    {b * 262144 + d : b \in {0, 1, 8000, 8191},
                      d \in (0..MaxSlack) \cup ((262143 - MaxSlack)..262143)}
        \cup {10, 100, 1000, 10000, 100000, 1000000,
              20, 200, 2000, 20000, 200000, 2000000}

\* what WalkDir finds: files and directories, as path components
WalkCatalogue ==
    { [path |-> << <<97, 46, 98, 105, 110>> >>, is_file |-> TRUE],             \* a.bin
      [path |-> << <<65, 46, 66, 73, 78>> >>, is_file |-> TRUE],               \* A.BIN
      [path |-> << <<100, 46, 109, 101, 115, 104>> >>, is_file |-> TRUE],      \* d.mesh
      [path |-> << <<100, 46, 77, 101, 115, 104>> >>, is_file |-> TRUE],       \* d.Mesh
      [path |-> << <<110, 46, 116, 120, 116>> >>, is_file |-> TRUE],           \* n.txt
      [path |-> << <<98, 97, 115, 101>> >>, is_file |-> FALSE],                \* base/
      [path |-> << <<98, 97, 115, 101>>, <<99, 46, 106, 115, 111, 110>> >>,
       is_file |-> TRUE],                                                      \* base/c.json
      [path |-> << <<115, 46, 98, 105, 110>> >>, is_file |-> FALSE] }          \* s.bin/

\* collect_resource_files over what the walk yields
collect_resource_files(walk) == {e \in walk : IsResourceFile(e.path)}

\* files given to make_entry: the cooked mesh and entity, the mesh with a
\* wrong magic, the mesh cut short around the ends of the magic, the header
\* and the table headers, and cooked files with a string table, with a name
\* or an import the string table does not hold, and with table headers 3
\* and 5 of different counts.  T lists the item counts of tables 0 to 6.
Cr2wInputs ==
    LET T(c) == [k \in 1..CR2W_TABLE_COUNT |-> <<CR2W_TABLES_END, IF k <= 7 THEN c[k] ELSE 0>>]
        File(c, body) ==
            Cr2wHeaderBytes(CR2W_TABLES_END + Len(body), CR2W_TABLES_END + Len(body), T(c))
                \o body
        abcd == <<97, 98, 99, 100, 0>>
        cuts == (0..MaxSlack) \cup ((4 - MaxSlack)..(4 + MaxSlack))
                    \cup ((CR2W_HEADER_END - MaxSlack)..(CR2W_HEADER_END + MaxSlack))
                    \cup ((CR2W_TABLES_END - MaxSlack)..(CR2W_TABLES_END + MaxSlack))
    IN  {MeshData, EntData, <<0>> \o Tail(MeshData)}
            \cup {SubSeq(MeshData, 1, n) : n \in cuts}
            \cup { \* "abcd" in a 5-byte string table, then 8 bytes of objects
                   File(<<5, 0, 0, 0, 0, 0, 0>>, abcd \o Fill(7, 35) \o <<0>>),
                   \* the same string table at the end of the file
                   File(<<5, 0, 0, 0, 0, 0, 0>>, abcd),
                   \* a string table that ends before its string does
                   File(<<4, 0, 0, 0, 0, 0, 0>>, <<97, 98, 99>>),
                   \* one name at offset 7 of an empty string table
                   File(<<0, 1, 0, 0, 0, 0, 0>>, U32LE(7) \o U32LE(0)),
                   \* one import of class 0, no names
                   File(<<0, 0, 1, 0, 0, 0, 0>>, U32LE(0) \o U32LE(0)),
                   \* one buffer record in table 5, none in table 3
                   File(<<0, 0, 0, 0, 0, 1, 0>>, Cr2wBufferRecord(0, 0, 0) \o Fill(8, 36)),
                   \* one record in table 3, none in tables 4 to 6
                   File(<<0, 0, 0, 1, 0, 0, 0>>, Zeros(PROPERTY_INFO_SIZE) \o Fill(80, 37)) }

\* archive files another program wrote, given to open_read.  The payload
\* area holds one KARK frame of 12 bytes and a sub-buffer of 3 bytes; the
\* files differ in the custom data at 0xAC, in the entries' segment ranges
\* and in the z_size of the first segment.  The first entry is named "a".
ArchiveInputs ==
    LET frame == U32LE(KRAKEN_MAGIC) \o U32LE(12) \o <<12, 65>>
        File(cdl, footer, ranges, z) ==
            LET at == HEADER_EXTENDED_SIZE + Len(footer)
                ip == at + Len(frame) + 3
                segs == << FileSegment_new(at, z, 12),
                           FileSegment_new(at + Len(frame), 3, 3) >>
                ents == [i \in 1..Len(ranges) |->
                            [entry |-> FileEntry_new(
                                           IF i = 1 THEN fnv1a64_hash_string(<<97>>)
                                                    ELSE <<i, 0, 0, 0, 0, 0, 0, 0>>, 0, 0,
                                           ranges[i][1], ranges[i][2], 0, 0, Zeros(20))]]
                table == U32LE(Len(ents)) \o U32LE(Len(segs)) \o U32LE(0)
                            \o EntryBytes(ents) \o SegmentBytes(segs)
                index == U32LE(INDEX_TABLE_OFFSET) \o U32LE(Len(table) + 8)
                            \o crc64(table) \o table
            IN  Header_write(Header_new(ip, Len(index), 0, 0, ip + Len(index)))
                    \o U32LE(cdl) \o Zeros(HEADER_PADDING - 4)
                    \o footer \o frame \o <<7, 8, 9>> \o index
        Lxrs(size, zsize, count, body) ==
            U32LE(LXRS_MAGIC) \o U32LE(LXRS_VERSION) \o U32LE(size) \o U32LE(zsize)
                \o U32LE(count) \o body
        ab == <<97, 0, 98, 0>>
        footers == { \* no custom data
                     [cdl |-> 0, bytes |-> <<>>],
                     \* two names, stored
                     [cdl |-> 24, bytes |-> Lxrs(4, 4, 2, ab)],
                     \* one name of six letters, compressed to 4 bytes
                     [cdl |-> 24, bytes |-> Lxrs(7, 4, 1, <<6, 97, 1, 0>>)],
                     \* not the footer magic
                     [cdl |-> 20, bytes |-> Zeros(20)],
                     \* compressed size above the uncompressed size
                     [cdl |-> 24, bytes |-> Lxrs(3, 4, 2, ab)],
                     \* a payload that does not decompress to the stated size
                     [cdl |-> 24, bytes |-> Lxrs(9, 4, 2, <<2, 97, 2, 0>>)] }
        ranges == { << <<0, 2>> >>,
                    << <<0, 1>>, <<1, 2>> >>,
                    << <<0, 2>>, <<2, 3>> >>,
                    << <<0, 1>>, <<1, 4>> >>,
                    << <<5, 6>>, <<0, 2>> >> }
    IN  {File(f.cdl, f.bytes, r, 10) : f \in footers, r \in ranges}
            \cup {File(0, <<>>, << <<0, 2>> >>, z) :
                    z \in (8 - MaxSlack)..(8 + MaxSlack)}

\* stream positions at which pad_until_page is called: around the start of
\* the stream and around the first two page boundaries
PadInputs ==
    (0..MaxSlack) \cup ((PAGE - MaxSlack)..(PAGE + MaxSlack))
                 \cup ((2 * PAGE - MaxSlack)..(2 * PAGE + MaxSlack))

BenchCalls ==
    {[fn |-> "compress", src |-> src] : src \in CompressInputs}
        \cup {[fn |-> "pad_until_page", pos |-> p] : p \in PadInputs}
        \cup {[fn |-> "open", buf |-> b] : b \in ArchiveInputs}
        \cup {[fn |-> "make_entry", data |-> d] : d \in Cr2wInputs}
        \cup {[fn |-> "read_strings", data |-> d] :
                d \in {x \in Cr2wInputs : Len(x) >= CR2W_TABLES_END}}
        \cup {[fn |-> "size", n |-> n, checked |-> c] : n \in SizeInputs, c \in BOOLEAN}
        \cup {[fn |-> "collect", walk |-> w] :
                w \in {S \in SUBSET WalkCatalogue : Cardinality(S) <= MaxWalk}}

\* everything but call and ret
pack_vars ==
    <<in_folder, os_sep, hash_map, pc, file_info, custom_paths, next_file,
      archive_writer, custom_data_length, entries, map_order, tableoffset,
      tablesize, archive, extracted, in_folder_exists, destination, dest_exists,
      out_dir, last>>

InitFn ==
    /\ in_folder_exists = FALSE
    /\ destination = [kind |-> "stream", existed |-> TRUE]
    /\ dest_exists = TRUE
    /\ in_folder = {}
    /\ os_sep = SLASH
    /\ hash_map = {}
    /\ pc = "bench"
    /\ file_info = <<>>
    /\ custom_paths = <<>>
    /\ next_file = 1
    /\ archive_writer = [buf |-> <<>>, pos |-> 0]
    /\ custom_data_length = 0
    /\ entries = EmptyMap
    /\ map_order = <<>>
    /\ tableoffset = 0
    /\ tablesize = 0
    /\ archive = None
    /\ extracted = None
    /\ out_dir = EmptyDir
    /\ last = NoExtract
    /\ call \in {Some(c) : c \in BenchCalls}
    /\ ret = None

\* compress(src, dst, level): the returned length and dst afterwards
Compress ==
    /\ pc = "bench"
    /\ ~ret.some
    /\ call.v.fn = "compress"
    /\ LET dst == compress(call.v.src)
       IN  ret' = Some([n |-> Len(dst), dst |-> dst])
    /\ UNCHANGED <<pack_vars, call>>

\* the body of tests::compressed_buffer_size for one size: both estimators
CompressedBufferSize ==
    /\ pc = "bench"
    /\ ~ret.some
    /\ call.v.fn = "size"
    /\ ret' = Some([a |-> get_compressed_buffer_size_needed(U64LE(call.v.n),
                                                            call.v.checked),
                    b |-> get_compressed_buffer_size_needed_kraken(call.v.n,
                                                                   call.v.checked)])
    /\ UNCHANGED <<pack_vars, call>>

\* collect_resource_files(in_folder)
CollectResourceFiles ==
    /\ pc = "bench"
    /\ ~ret.some
    /\ call.v.fn = "collect"
    /\ ret' = Some([kept |-> collect_resource_files(call.v.walk)])
    /\ UNCHANGED <<pack_vars, call>>

\* make_entry of a file d.mesh on an empty output stream: what
\* read_cr2w_header made of the file, and the entry and the bytes written
MakeEntry ==
    /\ pc = "bench"
    /\ ~ret.some
    /\ call.v.fn = "make_entry"
    /\ ret' = Some([info |-> read_cr2w_header(call.v.data),
                    made |-> make_entry(<< <<100, 46, 109, 101, 115, 104>> >>,
                                        call.v.data, [buf |-> <<>>, pos |-> 0],
                                        Zeros(8))])
    /\ UNCHANGED <<pack_vars, call>>

\* read_strings as read_cr2w_header calls it: the reader stands after the
\* ten table headers, the table is table 0
ReadStringTable ==
    /\ pc = "bench"
    /\ ~ret.some
    /\ call.v.fn = "read_strings"
    /\ ret' = Some(read_strings(call.v.data, CR2W_TABLES_END, CR2WTableAt(call.v.data, 0)))
    /\ UNCHANGED <<pack_vars, call>>

\* open_read of an archive file, then open_entry of every entry of the
\* handle: the handle (or the error or panic of opening) and what each
\* entry's segments gave
OpenArchive ==
    /\ pc = "bench"
    /\ ~ret.some
    /\ call.v.fn = "open"
    /\ LET r == from_reader_consume(call.v.buf, "Read")
       IN  ret' = Some([archive |-> r,
                        outs |-> IF IsOk(r)
                                 THEN [h \in DOMAIN r.v.entries |->
                                          extract_segments(call.v.buf, r.v.entries[h])]
                                 ELSE <<>>])
    /\ UNCHANGED <<pack_vars, call>>

\* pad_until_page on a writer that stands at the end of its stream: the new
\* position and the bytes written
PadUntilPage ==
    /\ pc = "bench"
    /\ ~ret.some
    /\ call.v.fn = "pad_until_page"
    /\ LET w == pad_until_page([buf |-> Zeros(call.v.pos), pos |-> call.v.pos])
       IN  ret' = Some([pos |-> w.pos,
                        written |-> SubSeq(w.buf, call.v.pos + 1, Len(w.buf))])
    /\ UNCHANGED <<pack_vars, call>>

NextFn ==
    \/ Compress
    \/ PadUntilPage
    \/ OpenArchive
    \/ MakeEntry
    \/ ReadStringTable
    \/ CompressedBufferSize
    \/ CollectResourceFiles

SpecFn == InitFn /\ [][NextFn]_vars

(***************************************************************************)
(* Properties of the packer and the reader.                                *)
(*                                                                         *)
(* The written archive is observed through the bytes of the output stream: *)
(* the header at offset 0, the index at the header's index_position.       *)
(***************************************************************************)

\* write_archive has returned Ok: the stream holds a complete archive
Written == pc \in {"done", "open", "open_err", "open_panic"}

WrittenHeader == Header_from_reader(archive_writer.buf).v

WrittenEntryCount == U32At(archive_writer.buf, WrittenHeader.index_position + 16)

WrittenSegmentCount == U32At(archive_writer.buf, WrittenHeader.index_position + 20)

\* the FileEntry records of the index, in the order they were written
WrittenEntries ==
    [i \in 1..WrittenEntryCount |->
        FileEntry_from_reader(archive_writer.buf,
            WrittenHeader.index_position + INDEX_SIZE + (i - 1) * FILE_ENTRY_SIZE)]

\* the FileSegment records of the index, in the order they were written
WrittenSegments ==
    [i \in 1..WrittenSegmentCount |->
        FileSegment_from_reader(archive_writer.buf,
            WrittenHeader.index_position + INDEX_SIZE
                + WrittenEntryCount * FILE_ENTRY_SIZE + (i - 1) * FILE_SEGMENT_SIZE)]

\* the input file behind a hash
FileByHash(h) == file_info[CHOOSE i \in 1..Len(file_info) : file_info[i].hash = h]

\* the packer takes the cooked path exactly when the CR2W header parses
IsCooked(data) == IsOk(read_cr2w_header(data))

\* the extension as the extension lists spell it: lowercase, with the dot
DottedExtension(components) == <<DOT>> \o make_entry_ext(components)

\* the buffer table of a cooked file: table 5 of its CR2W header
BufferTable(data) ==
    LET t == CR2WTableAt(data, 5)
    IN  [i \in 1..t.item_count |->
            CR2WBufferInfoAt(data, t.offset + (i - 1) * BUFFER_INFO_SIZE)]

ObjectsEnd(data) == U32At(data, OBJECTS_END_AT)

\* what extraction of a cooked file has to give: the main region, then each
\* sub-buffer's disk_size bytes, which follow the main region one after another
CookedImage(data) ==
    LET t == BufferTable(data)
        total == SumRange([i \in 1..Len(t) |-> t[i].disk_size], 1, Len(t))
    IN  Bytes(data, 0, ObjectsEnd(data) + total)

\* C1: packing a directory and extracting an entry that the packer handled
\* on the raw path gives back exactly the bytes of the input file.
C1_RawRoundTrip ==
    (pc = "open" /\ extracted.some /\ ~IsCooked(FileByHash(extracted.v.hash).data))
        => /\ extracted.v.st = "ok"
           /\ extracted.v.out = FileByHash(extracted.v.hash).data

\* C2: extracting an entry packed from a cooked file gives the first
\* objects_end bytes of the file followed by each sub-buffer's disk_size
\* bytes in buffer-table order.
C2_CookedRoundTrip ==
    (pc = "open" /\ extracted.some /\ IsCooked(FileByHash(extracted.v.hash).data))
        => /\ extracted.v.st = "ok"
           /\ extracted.v.out = CookedImage(FileByHash(extracted.v.hash).data)

\* C3: in a written archive the records at [segments_start, segments_end) of
\* the segment table are the entry's own main segment followed by its
\* sub-buffer segments in order.
C3_RangeHoldsOwnSegments ==
    Written =>
        \A i \in 1..WrittenEntryCount :
            LET e == WrittenEntries[i]
                own == entries[e.name_hash_64]
            IN  /\ e.segments_end <= WrittenSegmentCount
                /\ SubSeq(WrittenSegments, e.segments_start + 1, e.segments_end)
                       = <<own.segment>> \o own.buffers

\* C4: the FileEntry records of the written index are in ascending order of
\* the 64-bit path hash.
C4_IndexAscendingByHash ==
    Written =>
        \A i \in 1..WrittenEntryCount : \A j \in 1..WrittenEntryCount :
            i < j => HashLess(WrittenEntries[i].name_hash_64,
                              WrittenEntries[j].name_hash_64)

\* C4 witness: two entries whose map iteration order is descending by hash
\* have been written
C4_Witness ==
    /\ pc = "done"
    /\ Len(map_order) = 2
    /\ HashLess(map_order[2], map_order[1])
    /\ WrittenEntries[1].name_hash_64 = map_order[2]

\* C5: the main segment of a cooked entry has z_size = compressed payload
\* length + 8, the length of the KARK frame actually written.
C5_KarkZSizeCountsFrame ==
    \A h \in DOMAIN entries :
        IsCooked(FileByHash(h).data) =>
            entries[h].segment.z_size
                = Len(compress(Bytes(FileByHash(h).data, 0,
                                     ObjectsEnd(FileByHash(h).data)))) + 8

\* C6: a raw file with one of the aligned extensions is written at an offset
\* that is a multiple of 4096, the gap before it filled with 0xD9.
C6_AlignedExtensionsOnPage ==
    \A h \in DOMAIN entries :
        (/\ ~IsCooked(FileByHash(h).data)
         /\ DottedExtension(FileByHash(h).path) \in get_aligned_file_extensions)
            => /\ entries[h].segment.offset % PAGE = 0
               /\ archive_writer.buf[entries[h].segment.offset] = PAD_BYTE

\* C7: a raw file with one of the stored extensions is written verbatim with
\* z_size = size = file length whatever its length; any other raw file goes
\* through the codec with z_size = the codec's output length.
C7_StoredExtensionsVerbatim ==
    \A h \in DOMAIN entries :
        LET f == FileByHash(h)
            s == entries[h].segment
        IN  ~IsCooked(f.data) =>
                IF DottedExtension(f.path) \in get_uncompressed_file_extensions
                THEN /\ s.size = Len(f.data)
                     /\ s.z_size = Len(f.data)
                     /\ Bytes(archive_writer.buf, s.offset, s.z_size) = f.data
                ELSE /\ s.size = Len(f.data)
                     /\ s.z_size = Len(compress(f.data))
                     /\ Bytes(archive_writer.buf, s.offset, s.z_size) = compress(f.data)

\* C8: reading back with LxrsFooter::from_reader the footer that
\* LxrsFooter::write produced gives the same list of paths.
C8_FooterRoundTrip ==
    (Written /\ Len(custom_paths) > 0)
        => LxrsFooter_from_reader(archive_writer.buf, HEADER_EXTENDED_SIZE)
               = Ok(custom_paths)

\* C9: in the written index every entry has segments_start < segments_end <=
\* file_segment_count, and the ranges of the entries are pairwise disjoint
\* and together cover [0, file_segment_count).
C9_RangesPartitionSegments ==
    Written =>
        /\ \A i \in 1..WrittenEntryCount :
               /\ WrittenEntries[i].segments_start < WrittenEntries[i].segments_end
               /\ WrittenEntries[i].segments_end <= WrittenSegmentCount
        /\ \A i \in 1..WrittenEntryCount : \A j \in 1..WrittenEntryCount :
               i # j => \/ WrittenEntries[i].segments_end <= WrittenEntries[j].segments_start
                        \/ WrittenEntries[j].segments_end <= WrittenEntries[i].segments_start
        /\ \A k \in 0..(WrittenSegmentCount - 1) :
               \E i \in 1..WrittenEntryCount :
                   /\ WrittenEntries[i].segments_start <= k
                   /\ k < WrittenEntries[i].segments_end

\* C9 witness: an archive of two entries, one of them with a sub-buffer
C9_Witness ==
    /\ pc = "done"
    /\ WrittenEntryCount = 2
    /\ WrittenSegmentCount = 3
    /\ \E h \in DOMAIN entries : Len(entries[h].buffers) = 1

\* C10: after a successful write the header's index_position and filesize
\* are multiples of 4096 and filesize is the byte length of the stream.
C10_HeaderPageAligned ==
    Written =>
        /\ WrittenHeader.index_position % PAGE = 0
        /\ WrittenHeader.filesize % PAGE = 0
        /\ WrittenHeader.filesize = Len(archive_writer.buf)

\* C10 witness: an archive with a payload and a footer has been finished
C10_Witness ==
    /\ pc = "done"
    /\ Len(file_info) >= 1
    /\ custom_data_length > 0
    /\ WrittenHeader.index_position > HEADER_EXTENDED_SIZE
    /\ WrittenHeader.filesize > WrittenHeader.index_position

\* the hashes of the relative paths of the collected input files
CollectedHashes ==
    {fnv1a64_hash_string(RelPath(f)) : f \in {g \in in_folder : IsResourceFile(g.path)}}

\* C11: re-opening a written archive gives an entry map whose keys are
\* exactly the FNV-1a/64 hashes of the relative paths of the collected
\* input files: one entry per file, none skipped by the reader.
C11_ReopenedKeysAreInputHashes ==
    (pc = "open" /\ archive.some) =>
        /\ DOMAIN archive.v.entries = CollectedHashes
        /\ Cardinality(DOMAIN archive.v.entries) = Len(file_info)

\* C11 witness: an archive of two files, one with a sub-buffer, re-opened
C11_Witness ==
    /\ pc = "open"
    /\ archive.some
    /\ Cardinality(DOMAIN archive.v.entries) = 2
    /\ \E h \in DOMAIN archive.v.entries : Len(archive.v.entries[h].buffers) = 1

\* C12: opening in Read or Update mode an archive whose header magic is not
\* the archive magic (written 0x52344B53 and, in decimal, 1380009042 by the
\* format description; either spelling is accepted here) or whose version is
\* not 12 fails: no handle is returned.
C12_BadHeaderIsRejected ==
    archive.some =>
        /\ U32At(archive.v.stream, 0) \in {1379158867, HEADER_MAGIC}
        /\ U32At(archive.v.stream, 4) = HEADER_VERSION

\* the paths the packer staged in the archive's footer whose hash is h
FooterPaths(h) ==
    {custom_paths[i] : i \in {j \in 1..Len(custom_paths) :
                                  fnv1a64_hash_string(custom_paths[j]) = h}}

\* C13: the output name extract_entry uses is the footer path whose hash is
\* the entry's hash when the archive's footer holds one (and the entry has a
\* footer name exactly then), else the caller's dictionary entry for the
\* hash, else the decimal hash followed by ".bin".
C13_ResolvedNamePrefersFooter ==
    (last.op = "extract_entry" /\ last.outfile # <<>>) =>
        /\ archive.v.entries[last.hash].name.some <=> FooterPaths(last.hash) # {}
        /\ IF FooterPaths(last.hash) # {}
           THEN last.outfile \in FooterPaths(last.hash)
           ELSE IF MapHas(last.hash_map, last.hash)
           THEN last.outfile = MapGet(last.hash_map, last.hash)
           ELSE last.outfile = format_u64(last.hash) \o <<DOT>> \o BIN

\* C14: extract_entry with overwrite_files = false on an entry whose output
\* path already exists returns an error and leaves the files of the
\* destination, the existing one included, as they were.
C14_NoOverwriteKeepsExisting ==
    [][(/\ last'.n = last.n + 1
        /\ last'.op = "extract_entry"
        /\ ~last'.overwrite_files
        /\ MapHas(out_dir.files, last'.outfile))
           => (/\ last'.st = "err"
               /\ out_dir'.files = out_dir.files)]_vars

\* C14 witness: a second extraction of an entry whose non-empty file is
\* already there has been refused
C14_Witness ==
    /\ last.n = 2
    /\ last.op = "extract_entry"
    /\ ~last.overwrite_files
    /\ last.st = "err"
    /\ last.kind = "AlreadyExists"
    /\ MapHas(out_dir.files, last.outfile)
    /\ Len(MapGet(out_dir.files, last.outfile)) > 0

\* C15: extract_to_directory into a fresh destination creates exactly one
\* file per entry of the archive, at the entry's resolved name and holding
\* the entry's extracted bytes, and no other file.
C15_OneFilePerEntry ==
    (last.op = "extract_to_directory" /\ last.fresh) =>
        /\ last.st = "ok"
        /\ {f.k : f \in out_dir.files}
               = {get_resolved_name(archive.v.entries[h], last.hash_map).v :
                      h \in DOMAIN archive.v.entries}
        /\ \A h \in DOMAIN archive.v.entries :
               MapGet(out_dir.files,
                      get_resolved_name(archive.v.entries[h], last.hash_map).v)
                   = extract_segments(archive.v.stream, archive.v.entries[h]).out

\* what is at the destination before create_from_directory[_path] is called
InitialDestination ==
    IF destination.kind = "path" /\ destination.existed THEN OldArchive ELSE <<>>

\* C16: when the source directory does not exist the call fails with
\* InvalidInput and nothing has been written: the destination holds the bytes
\* it held before, and a destination path that had no file still has none.
C16_MissingSourceWritesNothing ==
    pc = "invalid_input" =>
        /\ archive_writer.buf = InitialDestination
        /\ dest_exists = destination.existed

\* the hashes of the collected files' relative paths spelled with backslashes
NormalisedHashes ==
    {fnv1a64_hash_string(JoinPath(f.path, BACKSLASH)) :
        f \in {g \in in_folder : IsResourceFile(g.path)}}

\* C17: the name_hash_64 written for a packed file is the FNV-1a/64 hash of
\* its relative path with every separator turned into a backslash, whatever
\* the separator of the platform: the written index holds exactly those
\* hashes.
C17_HashOfBackslashPath ==
    pc = "done" =>
        {WrittenEntries[i].name_hash_64 : i \in 1..WrittenEntryCount} = NormalisedHashes

\* C18: compress returns len(src) and leaves dst equal to src whenever
\* len(src) < 256, lengths 0 and 255 included, and for every len(src) >= 256
\* the result is what the Kraken codec produced.
C18_CompressBypassBelow256 ==
    (pc = "bench" /\ ret.some /\ call.v.fn = "compress") =>
        IF Len(call.v.src) < 256
        THEN ret.v.n = Len(call.v.src) /\ ret.v.dst = call.v.src
        ELSE ret.v.dst = Kraken_Compress(call.v.src) /\ ret.v.n = Len(ret.v.dst)

\* C18 witness: 255 bytes that are not all alike came back verbatim
C18_Witness ==
    /\ pc = "bench"
    /\ ret.some
    /\ call.v.fn = "compress"
    /\ Len(call.v.src) = 255
    /\ call.v.src[255] # call.v.src[1]
    /\ ret.v = [n |-> 255, dst |-> call.v.src]

\* C19: for every n >= 0 the two estimators return the same integer, and
\* that integer is n + 274 * ceil(n / 262144).
C19_EstimatorsAgreeWithFormula ==
    (pc = "bench" /\ ret.some /\ call.v.fn = "size") =>
        /\ ret.v.a.st = "ok"
        /\ ret.v.b.st = "ok"
        /\ ret.v.a.v = ret.v.b.v
        /\ ret.v.a.v >= call.v.n
        /\ ret.v.a.v - call.v.n
               = 274 * ((call.v.n \div 262144)
                           + (IF call.v.n % 262144 = 0 THEN 0 ELSE 1))

\* C20: collect_resource_files keeps a path exactly when it is a file whose
\* extension, lowercased, is in the resource-extension enumeration or is
\* "bin"; the letter case of the extension on disk does not matter.
C20_CollectIgnoresCase ==
    (pc = "bench" /\ ret.some /\ call.v.fn = "collect") =>
        \A e \in call.v.walk :
            e \in ret.v.kept <=>
                /\ e.is_file
                /\ PathExtension(FileName(e.path)).some
                /\ to_ascii_lowercase(PathExtension(FileName(e.path)).v)
                       \in included_extensions

\* C21: read_cr2w_header never panics; a wrong magic, a truncated header,
\* table or string table, and a name or import offset the string table does
\* not hold all give an error, and make_entry then packs the file on the raw
\* path: one compressed main segment of the whole file and no sub-buffers.
C21_HeaderErrorsFallBackToRaw ==
    (pc = "bench" /\ ret.some /\ call.v.fn = "make_entry") =>
        /\ ret.v.info.st \in {"ok", "err"}
        /\ ret.v.info.st = "err" =>
              /\ ret.v.made.st = "ok"
              /\ ret.v.made.entry.buffers = <<>>
              /\ ret.v.made.entry.segment.size = Len(call.v.data)
              /\ ret.v.made.w.buf = compress(call.v.data)

\* C22: on a handle whose mode is Read or Create, delete_entry returns None
\* and create_entry returns an error, and the handle (its entry map and its
\* dirty flag) is left exactly as it was.
C22_ReadOnlyHandleUnchanged ==
    [][(call' # call /\ archive.v.mode \in {"Read", "Create"}) =>
          /\ archive' = archive
          /\ pc' = pc
          /\ ret'.v.removed = None
          /\ call'.v.fn = "create_entry" => ret'.v.st = "err"]_vars

\* C22 witness: delete_entry was called for an entry of a Read handle, and
\* the handle still has the entry map built at open
C22_Witness ==
    /\ pc = "open"
    /\ call.some
    /\ call.v.fn = "delete_entry"
    /\ archive.v.mode = "Read"
    /\ call.v.hash \in DOMAIN archive.v.entries
    /\ archive.v.entries = from_reader_consume(archive_writer.buf, "Read").v.entries
    /\ ~archive.v.dirty

\* C23: in every archive write_archive produced, every segment, main or
\* sub-buffer, ends at or before the index: offset + z_size <= index_position.
C23_SegmentsBeforeIndex ==
    Written =>
        \A k \in 1..WrittenSegmentCount :
            WrittenSegments[k].offset + WrittenSegments[k].z_size
                <= WrittenHeader.index_position

\* C23 witness: an archive of two files with a main segment of a cooked file,
\* a sub-buffer and a raw segment
C23_Witness ==
    /\ pc = "done"
    /\ WrittenEntryCount = 2
    /\ WrittenSegmentCount = 3
    /\ \E k \in 1..WrittenSegmentCount : WrittenSegments[k].offset > HEADER_EXTENDED_SIZE

\* C24: read_cr2w_header reads the exports, buffers and embeds tables with
\* table headers 4, 5 and 6: the returned buffers_table has tables[5].item_count
\* records (exports tables[4].item_count, embeds tables[6].item_count), and
\* the packer emits one sub-buffer segment per record of table 5.
C24_BuffersFromTableFive ==
    (pc = "bench" /\ ret.some /\ call.v.fn = "make_entry" /\ ret.v.info.st = "ok") =>
        /\ ret.v.info.v.exports_count = CR2WTableAt(call.v.data, 4).item_count
        /\ Len(ret.v.info.v.buffers_table) = CR2WTableAt(call.v.data, 5).item_count
        /\ ret.v.info.v.embeds_count = CR2WTableAt(call.v.data, 6).item_count
        /\ ret.v.made.st = "ok" =>
              Len(ret.v.made.entry.buffers) = CR2WTableAt(call.v.data, 5).item_count

\* C25: read_strings reads only the bytes of [table0.offset, table0.offset +
\* table0.item_count): every string is keyed by a start offset inside the
\* span, and the reader is left at table0.offset + table0.item_count.
C25_StringsInsideSpan ==
    (pc = "bench" /\ ret.some /\ call.v.fn = "read_strings" /\ IsOk(ret.v)) =>
        LET table == CR2WTableAt(call.v.data, 0)
        IN  /\ \A e \in ret.v.v.strings : 0 <= e.k /\ e.k < table.item_count
            /\ ret.v.v.pos = table.offset + table.item_count

\* the records of the index of a bench archive, read off its bytes: the
\* entry records and the segment records in file order
IndexEntries(buf) ==
    LET ip == U64At(buf, 8)
    IN  [i \in 1..U32At(buf, ip + 16) |->
            FileEntry_from_reader(buf, ip + INDEX_SIZE + (i - 1) * FILE_ENTRY_SIZE)]

IndexSegments(buf) ==
    LET ip == U64At(buf, 8)
        at == ip + INDEX_SIZE + U32At(buf, ip + 16) * FILE_ENTRY_SIZE
    IN  [i \in 1..U32At(buf, ip + 20) |->
            FileSegment_from_reader(buf, at + (i - 1) * FILE_SEGMENT_SIZE)]

Opened == pc = "bench" /\ ret.some /\ call.v.fn = "open"

\* C26: when an archive is opened (and reading its footer did not panic),
\* opening succeeds; an entry whose segments_start is >= the segment count
\* is not in the entry map, and every entry whose segments_start is in range
\* is in the map, with the segment at segments_start as its main segment.
C26_OutOfRangeEntriesOmitted ==
    (Opened /\ ret.v.archive.st # "panic") =>
        /\ IsOk(ret.v.archive)
        /\ LET es == IndexEntries(call.v.buf)
               segs == IndexSegments(call.v.buf)
               map == ret.v.archive.v.entries
           IN  \A i \in DOMAIN es :
                  IF es[i].segments_start >= Len(segs)
                  THEN es[i].name_hash_64 \notin DOMAIN map
                  ELSE /\ es[i].name_hash_64 \in DOMAIN map
                       /\ map[es[i].name_hash_64].segment = segs[es[i].segments_start + 1]

\* an opened archive with one entry left out and one entry kept
C26_Witness ==
    /\ Opened
    /\ IsOk(ret.v.archive)
    /\ LET es == IndexEntries(call.v.buf)
           segs == IndexSegments(call.v.buf)
       IN  /\ \E i \in DOMAIN es : es[i].segments_start >= Len(segs)
           /\ \E i \in DOMAIN es : /\ es[i].segments_start < Len(segs)
                                   /\ es[i].segments_start + 1 # es[i].segments_end
                                   /\ es[i].name_hash_64 \in DOMAIN ret.v.archive.v.entries

\* C27: when custom_data_length is nonzero and the bytes at 0xAC are not a
\* valid LxrsFooter, opening succeeds, no entry has a footer-resolved name,
\* and the index is read from index_position as usual.
C27_BadFooterTolerated ==
    (Opened /\ U32At(call.v.buf, HEADER_SIZE) # 0
            /\ ~IsOk(LxrsFooter_from_reader(call.v.buf, HEADER_EXTENDED_SIZE))) =>
        /\ IsOk(ret.v.archive)
        /\ \A h \in DOMAIN ret.v.archive.v.entries : ~ret.v.archive.v.entries[h].name.some
        /\ \A i \in DOMAIN IndexEntries(call.v.buf) :
              IndexEntries(call.v.buf)[i].segments_start < Len(IndexSegments(call.v.buf))
                  => IndexEntries(call.v.buf)[i].name_hash_64
                        \in DOMAIN ret.v.archive.v.entries

\* C30: for every entry of an archive that open accepts, a main segment with
\* size # z_size that starts with the KARK magic has z_size >= 8, so the
\* payload length z_size - 8 is never negative.
C30_KarkPayloadLengthNotNegative ==
    (Opened /\ IsOk(ret.v.archive)) =>
        \A h \in DOMAIN ret.v.archive.v.entries :
            LET segment == ret.v.archive.v.entries[h].segment
            IN  (/\ segment.size # segment.z_size
                 /\ CanRead(call.v.buf, segment.offset, 8)
                 /\ Bytes(call.v.buf, segment.offset, 4) = U32LE(KRAKEN_MAGIC))
                    => segment.z_size >= 8

\* C28: pad_until_page leaves the stream position at a multiple of 4096 and
\* writes only 0xD9 bytes, between 1 and 4096 of them; a position that is
\* already 4096-aligned is advanced by one full page.
C28_PadToNextPage ==
    (pc = "bench" /\ ret.some /\ call.v.fn = "pad_until_page") =>
        /\ ret.v.pos % PAGE = 0
        /\ \A i \in DOMAIN ret.v.written : ret.v.written[i] = PAD_BYTE
        /\ Len(ret.v.written) \in 1..PAGE
        /\ ret.v.pos = call.v.pos + Len(ret.v.written)
        /\ call.v.pos % PAGE = 0 => ret.v.pos = call.v.pos + PAGE

\* pad_until_page has run at an aligned position past the start
C28_Witness ==
    /\ pc = "bench" /\ ret.some /\ call.v.fn = "pad_until_page"
    /\ call.v.pos > 0 /\ call.v.pos % PAGE = 0
    /\ Len(ret.v.written) = PAGE

\* the pack is under way or was aborted by an error or a panic
Unfinished == pc \in {"files", "tables", "invalid_input", "err", "panic"}

\* C29: during write_archive the first 40 bytes of the output stay zero
\* until the payloads, the index and the final padding are written; the
\* header with the magic and the version is written as the last step only,
\* so a pack that is aborted leaves no magic in the output.
C29_HeaderWrittenLast ==
    /\ Unfinished =>
          /\ \A i \in 1..HEADER_SIZE :
                i <= Len(archive_writer.buf) => archive_writer.buf[i] = 0
          /\ pc \in {"files", "tables"} => Len(archive_writer.buf) >= HEADER_EXTENDED_SIZE
    /\ pc = "done" =>
          /\ Bytes(archive_writer.buf, 0, 8) = U32LE(HEADER_MAGIC) \o U32LE(HEADER_VERSION)
          /\ Len(archive_writer.buf) % PAGE = 0

\* a pack aborted after a payload was written
C29_Witness ==
    /\ pc \in {"err", "panic"}
    /\ next_file > 1
    /\ Len(archive_writer.buf) > HEADER_EXTENDED_SIZE
    /\ Bytes(archive_writer.buf, 0, HEADER_SIZE) = Zeros(HEADER_SIZE)
====
